---- MODULE Spec2Model ----
(***************************************************************************)
(* Roster of members with ranks: the three roster implementations kept in  *)
(* this repository.                                                        *)
(*   impl = "db"    app.py, first copy: Flask routes over PostgreSQL       *)
(*   impl = "file"  app.py, second copy: the players.json store functions  *)
(*   impl = "tools" admin_tools.py: the in-memory player_ranks dict        *)
(* One behaviour is one running copy; impl never changes.                  *)
(*   impl = "cache" the avatar cache of app.py and the lookups behind it:  *)
(*                  request threads and the cleaner thread, interleaved    *)
(*   impl = "live"  avatar_live.py: the lookup without a cache             *)
(*   impl = "lock"  the same cache with every acquire and release of       *)
(*                  _avatar_lock a step of its own                         *)
(*   impl = "filelog"  the audit log of the file store                     *)
(*   impl = "stores"   the database store and the file store of the second *)
(*                     copy, given the same calls                          *)
(*   impl = "race", "first_start"  two requests at once on the file store, *)
(*                     players.json present or not yet created             *)
(*   impl = "add_race" two POST /add at once on the first copy             *)
(***************************************************************************)
EXTENDS Integers, Sequences, FiniteSets, TLC

VARIABLES
    impl,          \* which copy of the roster is running
    members,       \* db: rows of table members
    next_id,       \* db: next value of the SERIAL sequence members.id
    logs,          \* db: rows of table logs, in id order
    session,       \* db: the Flask session of the browser
    datafile,      \* file: the JSON document in players.json
    player_ranks,  \* tools: dict username -> rank name
    clock,         \* datetime.now(): one tick per created member
    result,        \* value returned by the last store function called
    response,      \* db: HTTP response of the last request
    hist,          \* the last request, if it was a rank change: op, target, rank before
    avatar_cache,  \* cache: dict _avatar_cache, lower-cased username -> entry
    now,           \* cache: time.time()
    thread,        \* cache: each request thread's place in get_roblox_avatar
    cleaner,       \* cache: the cleaner thread's place in _avatar_cleaner_loop
    served,        \* cache: the last avatar lookup that returned, and from where
    avatar_lock,   \* cache: the holder of _avatar_lock, "free" when nobody holds it
    disk           \* file: players.json as a file (missing, partial, whole) and
                   \* the holder of _file_lock

vars == <<impl, members, next_id, logs, session, datafile, player_ranks,
          clock, result, response, hist, avatar_cache, now, thread, cleaner,
          served, avatar_lock, disk>>

\* the state of the avatar cache and of the threads that use it
cache_vars == <<avatar_cache, now, thread, cleaner, served, avatar_lock>>

\* the state of the roster copies
roster_vars == <<impl, members, next_id, logs, session, datafile,
                 player_ranks, clock, response, hist, disk>>

----------------------------------------------------------------------------
(* Bounds of the model *)

MaxAdds == 2
MaxLog == 4
MaxRun == 17
\* calls of the file copy's log_action in one run
MaxCalls == 502
\* the clock of the avatar cache stops at MaxTime
MaxTime == 3
\* AVATAR_TTL is read from the environment (3600 seconds when unset); the
\* cache is run with a time-to-live of a few ticks of the clock
AVATAR_TTL == 2

\* runs of db_sync.py main() on one players.json
MaxSyncRuns == 3

----------------------------------------------------------------------------
(* Configuration *)

PNP_RANKS ==
    << "Patrolman/Patrolwoman", "Police Corporal", "Police Staff Sergeant",
       "Police Master Sergeant", "Police Senior Master Sergeant",
       "Police Chief Master Sergeant", "Police Executive Master Sergeant",
       "Police Lieutenant", "Police Captain", "Police Major",
       "Police Lieutenant Colonel", "Police Colonel",
       "Police Brigadier General", "Police Major General",
       "Police Lieutenant General", "Police General" >>

\* d["logs"] = logs[:500]
LOG_KEEP == 500

\* len(PNP_RANKS)
N == Len(PNP_RANKS)

PNCO_RANKS ==
    << "Patrolman/Patrolwoman", "Police Corporal", "Police Staff Sergeant",
       "Police Master Sergeant", "Police Senior Master Sergeant",
       "Police Chief Master Sergeant", "Police Executive Master Sergeant" >>

PCO_RANKS ==
    << "Police Lieutenant", "Police Captain", "Police Major",
       "Police Lieutenant Colonel", "Police Colonel",
       "Police Brigadier General", "Police Major General",
       "Police Lieutenant General", "Police General" >>

\* the admins table after startup: one row, the default admin
admins == { [username |-> "admin", password |-> "PNP2025"] }

----------------------------------------------------------------------------
(* Inputs *)

\* the username field of the add form, as typed
FormUsernames == { "", "alice", "Alice", " bob " }

\* the rank_index field of the add form, as sent
FormRanks == { "-1", "0", "7", "16", "abc" }

\* usernames handed to the store functions and to admin_tools
Usernames == { "alice", "Alice", "bob" }

\* member ids in request paths: 0 is never assigned
ReqIds == 0..MaxAdds

\* (username, password) pairs of the login form
Credentials == { <<"admin", "PNP2025">>, <<"admin", "guess">> }

\* usernames handed to admin_tools
ToolUsers == { "alice", "Alice" }

\* ranks handed to admin_tools: every valid rank and one that is none
ToolRanks == { PNCO_RANKS[i] : i \in 1..Len(PNCO_RANKS) }
             \cup { PCO_RANKS[i] : i \in 1..Len(PCO_RANKS) }
             \cup { "Cadet" }

----------------------------------------------------------------------------
(* Python built-ins on the values of the model *)

\* str.lower()
lower(s) == CASE s = "Alice" -> "alice"
              [] s = " Bob " -> " bob "
              [] OTHER -> s

\* str.strip()
strip(s) == CASE s = " bob " -> "bob"
              [] s = " Bob " -> "Bob"
              [] OTHER -> s

\* int(request.form.get("rank_index", 0)), 0 when int() raises
form_int(s) == CASE s = "-1" -> 0 - 1
                 [] s = "0" -> 0
                 [] s = "7" -> 7
                 [] s = "15" -> 15
                 [] s = "16" -> 16
                 [] OTHER -> 0

max(a, b) == IF a >= b THEN a ELSE b

min(a, b) == IF a <= b THEN a ELSE b

\* PNP_RANKS[i] for a 0-based index i
rank_name(i) == PNP_RANKS[i + 1]

\* seq.index(x), 0-based
index(seq, x) == (CHOOSE i \in 1..Len(seq) : seq[i] = x) - 1

\* x in seq
contains(seq, x) == \E i \in 1..Len(seq) : seq[i] = x

NoHist == [op |-> "other", id |-> 0, user |-> "", before |-> 0 - 1]

\* players.json exists with a whole document in it, _file_lock is free
Whole == [file |-> "whole", lock |-> "free"]

NoSession == [is_admin |-> FALSE, admin_user |-> ""]

----------------------------------------------------------------------------
(* app.py, first copy: PostgreSQL store *)

\* clamp_rank without the clamp: the form's value stored as sent
clamp_rank_as_sent(rank_index) == rank_index

\* max(0, min(rank_index, len(PNP_RANKS)-1)) in the /add route
clamp_rank(rank_index) == max(0, min(rank_index, N - 1))

\* new_rank with the top of the ladder one too low
new_rank_short(ri, delta) == max(0, min(N - 2, ri + delta))

\* new_rank with the delta subtracted
new_rank_flipped(ri, delta) == max(0, min(N - 1, ri - delta))

\* new_rank with the bottom of the ladder one too high
new_rank_floor_one(ri, delta) == max(1, min(N - 1, ri + delta))

\* new_rank with the delta left out
new_rank_no_delta(ri, delta) == max(0, min(N - 1, ri))

\* max(0, min(len(PNP_RANKS)-1, int(r[0]) + delta)) in change_rank_db
new_rank(ri, delta) == max(0, min(N - 1, ri + delta))

\* SELECT ... FROM members ORDER BY id
list_members_db == members

\* add_member_db without the rank_index column: the column's DEFAULT 0
add_member_db_default_rank(username, rank_index) ==
    /\ members' = members \cup
          { [id |-> next_id, username |-> username,
             rank_index |-> 0, created_at |-> clock + 1] }
    /\ next_id' = next_id + 1
    /\ clock' = clock + 1

\* INSERT INTO members (username, rank_index, created_at)
add_member_db(username, rank_index) ==
    /\ members' = members \cup
          { [id |-> next_id, username |-> username,
             rank_index |-> rank_index, created_at |-> clock + 1] }
    /\ next_id' = next_id + 1
    /\ clock' = clock + 1

\* delete_member_db returning rowcount >= 0
delete_member_db_always_true(member_id) ==
    /\ members' = { m \in members : m.id # member_id }
    /\ result' = "True"

\* delete_member_db without the WHERE clause
delete_member_db_all_rows(member_id) ==
    /\ members' = {}
    /\ result' = IF members # {} THEN "True" ELSE "False"

\* DELETE FROM members WHERE id = %s; returns rowcount > 0
delete_member_db(member_id) ==
    /\ members' = { m \in members : m.id # member_id }
    /\ result' = IF \E m \in members : m.id = member_id THEN "True" ELSE "False"

\* the UPDATE of change_rank_db without its WHERE clause
change_rank_rows_every_row(member_id, delta) ==
    { [m EXCEPT !.rank_index = new_rank(m.rank_index, delta)] : m \in members }

\* the rows of members after change_rank_db(member_id, delta)
change_rank_rows(member_id, delta) ==
    { IF m.id = member_id
        THEN [m EXCEPT !.rank_index = new_rank(m.rank_index, delta)]
        ELSE m : m \in members }

\* change_rank_db returning True for a member it did not find
change_rank_db_always_true(member_id, delta) ==
    /\ members' = change_rank_rows(member_id, delta)
    /\ result' = "True"

\* SELECT rank_index; not found -> False; UPDATE rank_index; True
change_rank_db(member_id, delta) ==
    IF \E m \in members : m.id = member_id
      THEN /\ members' = change_rank_rows(member_id, delta)
           /\ result' = "True"
      ELSE /\ members' = members
           /\ result' = "False"

\* INSERT INTO logs (at, admin, action, details)
log_action_db(admin, action, details) ==
    logs' = Append(logs, [admin |-> admin, action |-> action, details |-> details])

\* SELECT password_hash FROM admins WHERE username = %s; check_password_hash
verify_admin(username, password) ==
    \E a \in admins : a.username = username /\ a.password = password

\* session.get("admin_user", default)
session_admin_user(default) ==
    IF session.admin_user = "" THEN default ELSE session.admin_user

\* rank before the request of the member with this id, -1 when there is none
rank_of(member_id) ==
    IF \E m \in members : m.id = member_id
      THEN (CHOOSE m \in members : m.id = member_id).rank_index
      ELSE 0 - 1

\* admin_required without the check: every session passes
admin_session_always == TRUE

\* session.get("is_admin") in admin_required
admin_session == session.is_admin

\* @admin_required: no admin session -> redirect to /login, handler not run
login_redirect ==
    /\ ~admin_session
    /\ response' = "redirect_login"
    /\ result' = "None"
    /\ hist' = NoHist
    /\ UNCHANGED <<cache_vars, disk, impl, members, next_id, logs, session, datafile,
                   player_ranks, clock>>

\* POST /login
login(u, p) ==
    /\ impl = "db"
    /\ hist' = NoHist
    /\ result' = "None"
    /\ IF verify_admin(strip(u), p)
         THEN /\ session' = [is_admin |-> TRUE, admin_user |-> strip(u)]
              /\ log_action_db(strip(u), "login", "admin logged in")
              /\ response' = "redirect_index"
         ELSE /\ response' = "401"
              /\ UNCHANGED <<session, logs>>
    /\ UNCHANGED <<cache_vars, disk, impl, members, next_id, datafile, player_ranks, clock>>

\* GET /logout
logout ==
    /\ impl = "db"
    /\ hist' = NoHist
    /\ result' = "None"
    /\ session' = NoSession
    /\ log_action_db(session_admin_user("unknown"), "logout", "admin logged out")
    /\ response' = "redirect_index"
    /\ UNCHANGED <<cache_vars, disk, impl, members, next_id, datafile, player_ranks, clock>>

\* POST /add; the avatar prefetch thread it starts touches only the avatar cache
add_member(form_username, form_rank) ==
    /\ impl = "db"
    /\ \/ login_redirect
       \/ /\ admin_session
          /\ hist' = NoHist
          /\ result' = "None"
          /\ response' = "redirect_index"
          /\ LET username == strip(form_username)
                 rank_index == form_int(form_rank)
             IN IF username = ""
                     \/ \E m \in list_members_db : lower(m.username) = lower(username)
                  THEN UNCHANGED <<members, next_id, clock, logs>>
                  ELSE /\ clock < MaxAdds
                       /\ add_member_db(username, clamp_rank(rank_index))
                       /\ log_action_db(session_admin_user("admin"), "add",
                              username \o " -> "
                                  \o rank_name(max(0, min(rank_index, N - 1))))
          /\ UNCHANGED <<cache_vars, disk, impl, session, datafile, player_ranks>>

\* POST /delete/<int:member_id>
delete_member(member_id) ==
    /\ impl = "db"
    /\ \/ login_redirect
       \/ /\ admin_session
          /\ hist' = NoHist
          /\ response' = "redirect_index"
          /\ delete_member_db(member_id)
          /\ IF result' = "True"
               THEN log_action_db(session_admin_user("admin"), "delete", "id:" \o ToString(member_id))
               ELSE UNCHANGED logs
          /\ UNCHANGED <<cache_vars, disk, impl, next_id, session, datafile, player_ranks, clock>>

\* POST /promote/<int:member_id>
promote_member(member_id) ==
    /\ impl = "db"
    /\ \/ login_redirect
       \/ /\ admin_session
          /\ hist' = [op |-> "promote", id |-> member_id, user |-> "",
                      before |-> rank_of(member_id)]
          /\ response' = "redirect_index"
          /\ change_rank_db(member_id, 1)
          /\ IF result' = "True"
               THEN log_action_db(session_admin_user("admin"), "promote", "id:" \o ToString(member_id))
               ELSE UNCHANGED logs
          /\ UNCHANGED <<cache_vars, disk, impl, next_id, session, datafile, player_ranks, clock>>

\* POST /demote/<int:member_id>
demote_member(member_id) ==
    /\ impl = "db"
    /\ \/ login_redirect
       \/ /\ admin_session
          /\ hist' = [op |-> "demote", id |-> member_id, user |-> "",
                      before |-> rank_of(member_id)]
          /\ response' = "redirect_index"
          /\ change_rank_db(member_id, 0 - 1)
          /\ IF result' = "True"
               THEN log_action_db(session_admin_user("admin"), "demote", "id:" \o ToString(member_id))
               ELSE UNCHANGED logs
          /\ UNCHANGED <<cache_vars, disk, impl, next_id, session, datafile, player_ranks, clock>>

\* GET /: the roster and the logs rendered for any session; the avatars of
\* the page are resolved by get_roblox_avatar, whose steps are those of
\* SpecCache
index_route ==
    /\ impl = "db"
    /\ hist' = NoHist
    /\ result' = "None"
    /\ response' = "roster"
    /\ UNCHANGED <<cache_vars, disk, impl, members, next_id, logs, session, datafile,
                   player_ranks, clock>>

\* Two POST /add at once, each in a thread of the server: the duplicate
\* check, the INSERT and the log INSERT are three transactions.

\* POST /add up to the duplicate check on the rows list_members_db returned
add_race_check(t, form_username) ==
    /\ impl = "add_race"
    /\ admin_session
    /\ thread[t].pc = "idle"
    /\ thread' = [thread EXCEPT ![t] =
          [pc |-> IF strip(form_username) = ""
                     \/ \E m \in list_members_db :
                            lower(m.username) = lower(strip(form_username))
                    THEN "done" ELSE "insert",
           op |-> [name |-> "add", id |-> 0, username |-> strip(form_username)],
           d |-> [members |-> <<>>, logs |-> <<>>]]]
    /\ response' = IF thread'[t].pc = "done" THEN "redirect_index" ELSE response
    /\ UNCHANGED <<impl, members, next_id, logs, session, datafile, player_ranks,
                   clock, result, hist, avatar_cache, now, cleaner, served,
                   avatar_lock, disk>>

\* POST /add: add_member_db
add_race_insert(t) ==
    /\ impl = "add_race"
    /\ thread[t].pc = "insert"
    /\ add_member_db(thread[t].op.username, clamp_rank(0))
    /\ thread' = [thread EXCEPT ![t].pc = "log"]
    /\ UNCHANGED <<impl, logs, session, datafile, player_ranks, result, response,
                   hist, avatar_cache, now, cleaner, served, avatar_lock, disk>>

\* POST /add: log_action_db and the redirect
add_race_log(t) ==
    /\ impl = "add_race"
    /\ thread[t].pc = "log"
    /\ log_action_db(session_admin_user("admin"), "add",
                     thread[t].op.username \o " -> " \o rank_name(0))
    /\ response' = "redirect_index"
    /\ thread' = [thread EXCEPT ![t].pc = "done"]
    /\ UNCHANGED <<impl, members, next_id, session, datafile, player_ranks,
                   clock, result, hist, avatar_cache, now, cleaner, served,
                   avatar_lock, disk>>

----------------------------------------------------------------------------
(* app.py, second copy: the players.json store functions.  Its routes are  *)
(* not part of the sources; each action is one call of a store function.   *)

\* the rank index the missing /add route hands to add_member: the form's
\* value clamped into the ladder
file_route_rank(form_rank) == max(0, min(form_int(form_rank), N - 1))

\* max((m.get("id", 0) for m in members), default=0)
max_id(ms) ==
    IF Len(ms) = 0 THEN 0
    ELSE CHOOSE x \in { ms[i].id : i \in 1..Len(ms) } :
             \A i \in 1..Len(ms) : ms[i].id <= x

\* [m for m in members if int(m.get("id")) != int(member_id)]
without_id(ms, member_id) == SelectSeq(ms, LAMBDA m : m.id # member_id)

\* position of the first member with this id, 0 when there is none
first_with_id(ms, member_id) ==
    IF \E i \in 1..Len(ms) : ms[i].id = member_id
      THEN CHOOSE i \in 1..Len(ms) :
               /\ ms[i].id = member_id
               /\ \A j \in 1..(i - 1) : ms[j].id # member_id
      ELSE 0

\* rank before the call of the first member with this id, -1 when there is none
file_rank_of(member_id) ==
    LET i == first_with_id(datafile.members, member_id)
    IN IF i = 0 THEN 0 - 1 ELSE datafile.members[i].rank_index

\* add_member(username, rank_index) of the file fallback
file_add_member(username, rank_index) ==
    /\ impl = "file"
    /\ hist' = NoHist
    /\ result' = "None"
    /\ LET ms == datafile.members
       IN IF \E i \in 1..Len(ms) : lower(ms[i].username) = lower(username)
            THEN UNCHANGED <<datafile, clock>>
            ELSE /\ clock < MaxAdds
                 /\ datafile' = [datafile EXCEPT !.members =
                        Append(ms, [id |-> max_id(ms) + 1, username |-> username,
                                    rank_index |-> rank_index,
                                    created_at |-> clock + 1])]
                 /\ clock' = clock + 1
    /\ UNCHANGED <<cache_vars, disk, impl, members, next_id, logs, session, player_ranks, response>>

\* delete_member(member_id) of the file fallback
file_delete_member(member_id) ==
    /\ impl = "file"
    /\ hist' = NoHist
    /\ datafile' = [datafile EXCEPT !.members = without_id(@, member_id)]
    /\ result' = IF Len(datafile'.members) < Len(datafile.members)
                   THEN "True" ELSE "False"
    /\ UNCHANGED <<cache_vars, disk, impl, members, next_id, logs, session, player_ranks,
                   clock, response>>

\* change_member_rank(member_id, delta) of the file fallback; a call with
\* delta = +1 is recorded as a promote, as in the routes of the first copy
file_change_member_rank(member_id, delta) ==
    /\ impl = "file"
    /\ hist' = [op |-> IF delta = 1 THEN "promote" ELSE "demote",
                id |-> member_id, user |-> "", before |-> file_rank_of(member_id)]
    /\ LET i == first_with_id(datafile.members, member_id)
       IN IF i = 0
            THEN /\ result' = "False"
                 /\ UNCHANGED datafile
            ELSE /\ datafile' = [datafile EXCEPT !.members[i].rank_index =
                        max(0, min(N - 1, @ + delta))]
                 /\ result' = "True"
    /\ UNCHANGED <<cache_vars, disk, impl, members, next_id, logs, session, player_ranks,
                   clock, response>>

\* seq[-n:], the last n elements
slice_last(seq, n) ==
    IF Len(seq) <= n THEN seq ELSE SubSeq(seq, Len(seq) - n + 1, Len(seq))

\* seq[:n] for n >= 0, the first n elements
slice_to(seq, n) == SubSeq(seq, 1, min(n, Len(seq)))

\* values of limit in get_logs(limit): the default 200, less and more
LogLimits == {1, 200, 600}

\* log_action(admin, action, details) of the file fallback: the entry goes
\* in front and the first LOG_KEEP entries are written back.  In these runs
\* result is the list of the last get_logs, empty after a log_action,
\* which returns nothing
file_log_action(admin, action, details) ==
    /\ impl = "filelog"
    /\ clock < MaxCalls
    /\ hist' = NoHist
    /\ result' = <<>>
    /\ clock' = clock + 1
    /\ datafile' = [datafile EXCEPT !.logs =
           slice_to(<< [at |-> clock + 1, admin |-> admin, action |-> action,
                        details |-> details] >> \o @, LOG_KEEP)]
    /\ UNCHANGED <<cache_vars, disk, impl, members, next_id, logs, session,
                   player_ranks, response>>

\* get_logs(limit) of the file fallback
file_get_logs(limit) ==
    /\ impl = "filelog"
    /\ hist' = [op |-> "get_logs", id |-> limit, user |-> "", before |-> 0 - 1]
    /\ result' = slice_to(datafile.logs, limit)
    /\ UNCHANGED <<cache_vars, disk, impl, members, next_id, logs, session, datafile,
                   player_ranks, clock, response>>

\* The store functions of the file fallback as functions of the document d
\* that read_datafile returned: the document they hand to write_datafile,
\* or d itself when they write nothing, and the value they return.

\* add_member(username, rank_index), at the value of datetime.now
add_member_doc(d, username, rank_index, at) ==
    IF \E i \in 1..Len(d.members) : lower(d.members[i].username) = lower(username)
      THEN d
      ELSE [d EXCEPT !.members =
              Append(@, [id |-> max_id(d.members) + 1, username |-> username,
                         rank_index |-> rank_index, created_at |-> at])]

\* delete_member(member_id)
delete_member_doc(d, member_id) ==
    [d EXCEPT !.members = without_id(@, member_id)]

\* the value delete_member(member_id) returns
delete_member_ret(d, member_id) ==
    IF Len(without_id(d.members, member_id)) < Len(d.members)
      THEN "True" ELSE "False"

\* change_member_rank(member_id, delta)
change_member_rank_doc(d, member_id, delta) ==
    IF first_with_id(d.members, member_id) = 0
      THEN d
      ELSE [d EXCEPT !.members[first_with_id(d.members, member_id)].rank_index =
              max(0, min(N - 1, @ + delta))]

\* the value change_member_rank(member_id, delta) returns
change_member_rank_ret(d, member_id, delta) ==
    IF first_with_id(d.members, member_id) = 0 THEN "False" ELSE "True"

\* log_action(admin, action, details), at the value of datetime.now
log_action_doc(d, admin, action, details, at) ==
    [d EXCEPT !.logs = slice_to(<< [at |-> at, admin |-> admin,
                                   action |-> action, details |-> details] >>
                                \o @, LOG_KEEP)]

\* The store functions of the second copy's "if USE_DB" branch.  The CREATE
\* TABLE members of that copy is cut off in the sources; ON CONFLICT
\* (username) needs a unique index on the column, which is what db.py and
\* db_sync.py declare for the same table: username TEXT UNIQUE NOT NULL,
\* compared as written.

\* rank indexes passed to add_member of the two stores
StoreRanks == {0, N - 1}

\* one call of add_member(username, rank_index) on both stores: INSERT ...
\* ON CONFLICT (username) DO NOTHING, which draws the next id from the
\* sequence before it finds the conflict
stores_add_member(username, rank_index) ==
    /\ impl = "stores"
    /\ clock < MaxAdds
    /\ clock' = clock + 1
    /\ next_id' = next_id + 1
    /\ members' =
          IF \E m \in members : m.username = username
            THEN members
            ELSE members \cup { [id |-> next_id, username |-> username,
                                 rank_index |-> rank_index,
                                 created_at |-> clock + 1] }
    /\ datafile' = add_member_doc(datafile, username, rank_index, clock + 1)
    /\ result' = <<"None", "None">>
    /\ hist' = NoHist
    /\ UNCHANGED <<cache_vars, disk, impl, logs, session, player_ranks, response>>

\* one call of delete_member(member_id) on both stores
stores_delete_member(member_id) ==
    /\ impl = "stores"
    /\ members' = { m \in members : m.id # member_id }
    /\ datafile' = delete_member_doc(datafile, member_id)
    /\ result' = << IF \E m \in members : m.id = member_id
                      THEN "True" ELSE "False",
                    delete_member_ret(datafile, member_id) >>
    /\ hist' = NoHist
    /\ UNCHANGED <<cache_vars, disk, impl, next_id, logs, session, player_ranks,
                   clock, response>>

\* one call of change_member_rank(member_id, delta) on both stores
stores_change_member_rank(member_id, delta) ==
    /\ impl = "stores"
    /\ members' = { IF m.id = member_id
                      THEN [m EXCEPT !.rank_index = max(0, min(N - 1, @ + delta))]
                      ELSE m : m \in members }
    /\ datafile' = change_member_rank_doc(datafile, member_id, delta)
    /\ result' = << IF \E m \in members : m.id = member_id
                      THEN "True" ELSE "False",
                    change_member_rank_ret(datafile, member_id, delta) >>
    /\ hist' = NoHist
    /\ UNCHANGED <<cache_vars, disk, impl, next_id, logs, session, player_ranks,
                   clock, response>>

\* Two requests at once on the file store.  A call of a store function is
\* ensure_datafile (not under the lock), the locked read, the function's
\* own work on the document it read, and write_datafile.

\* the threads of the two requests
RaceThreads == {"r1", "r2"}

\* json.dumps({"admin": None, "members": [], "logs": []})
Skeleton == [members |-> <<>>, logs |-> <<>>]

\* players.json before the two requests: two members, no log entries
RaceStart ==
    [members |-> << [id |-> 1, username |-> "alice", rank_index |-> 0,
                     created_at |-> 1],
                    [id |-> 2, username |-> "bob", rank_index |-> 3,
                     created_at |-> 2] >>,
     logs |-> <<>>]

\* the store function a request calls, with its arguments
RaceOps ==
    { [name |-> "promote", id |-> 1, username |-> ""],
      [name |-> "promote", id |-> 2, username |-> ""],
      [name |-> "demote", id |-> 2, username |-> ""],
      [name |-> "add", id |-> 0, username |-> "carol"],
      [name |-> "add", id |-> 0, username |-> "Alice"],
      [name |-> "delete", id |-> 2, username |-> ""],
      [name |-> "log", id |-> 0, username |-> ""],
      [name |-> "view", id |-> 0, username |-> ""] }

\* a request thread that has not called anything
RaceIdle == [pc |-> "idle", op |-> [name |-> "none", id |-> 0, username |-> ""],
             d |-> Skeleton]

\* the document the store function makes of the document d it read
apply_doc(op, d) ==
    CASE op.name = "promote" -> change_member_rank_doc(d, op.id, 1)
      [] op.name = "demote" -> change_member_rank_doc(d, op.id, 0 - 1)
      [] op.name = "add" -> add_member_doc(d, op.username, 0, clock + 1)
      [] op.name = "delete" -> delete_member_doc(d, op.id)
      [] op.name = "log" -> log_action_doc(d, "admin", "login", "", clock + 1)
      [] OTHER -> d

\* the store function calls write_datafile: delete_member and log_action
\* always, add_member unless the username is there, change_member_rank if
\* it found the member, get_members_list never
writes_doc(op, d) ==
    CASE op.name \in {"delete", "log"} -> TRUE
      [] op.name = "add" -> add_member_doc(d, op.username, 0, clock + 1) # d
      [] op.name \in {"promote", "demote"} ->
             change_member_rank_ret(d, op.id, 1) = "True"
      [] OTHER -> FALSE

\* a request calls a store function, which calls read_datafile
race_call(t, op) ==
    /\ impl \in {"race", "first_start"}
    /\ thread[t].pc = "idle"
    /\ thread' = [thread EXCEPT ![t] = [pc |-> "ensure", op |-> op, d |-> Skeleton]]
    /\ UNCHANGED <<impl, members, next_id, logs, session, datafile, player_ranks,
                   clock, result, response, hist, avatar_cache, now, cleaner,
                   served, avatar_lock, disk>>

\* ensure_datafile: DATA_FILE.exists()
race_exists(t) ==
    /\ impl \in {"race", "first_start"}
    /\ thread[t].pc = "ensure"
    /\ thread' = [thread EXCEPT ![t].pc =
                      IF disk.file = "missing" THEN "create" ELSE "read"]
    /\ UNCHANGED <<impl, members, next_id, logs, session, datafile, player_ranks,
                   clock, result, response, hist, avatar_cache, now, cleaner,
                   served, avatar_lock, disk>>

\* ensure_datafile: write_text opens players.json for writing, which creates
\* it or empties it
race_create(t) ==
    /\ impl \in {"race", "first_start"}
    /\ thread[t].pc = "create"
    /\ thread' = [thread EXCEPT ![t].pc = "fill"]
    /\ disk' = [disk EXCEPT !.file = "partial"]
    /\ datafile' = Skeleton
    /\ UNCHANGED <<impl, members, next_id, logs, session, player_ranks,
                   clock, result, response, hist, avatar_cache, now, cleaner,
                   served, avatar_lock>>

\* ensure_datafile: write_text writes the skeleton and closes the file; if
\* the file was replaced since it was opened, the text goes to the file
\* that is no longer players.json
race_fill(t) ==
    /\ impl \in {"race", "first_start"}
    /\ thread[t].pc \in {"fill", "fill_lost"}
    /\ thread' = [thread EXCEPT ![t].pc = "read"]
    /\ IF thread[t].pc = "fill"
         THEN disk' = [disk EXCEPT !.file = "whole"]
         ELSE UNCHANGED disk
    /\ UNCHANGED <<impl, members, next_id, logs, session, datafile, player_ranks,
                   clock, result, response, hist, avatar_cache, now, cleaner,
                   served, avatar_lock>>

\* read_datafile: under _file_lock, json.loads(DATA_FILE.read_text()); an
\* emptied file makes json.loads raise; then the store function works on
\* the document and returns unless it has something to write
race_read(t) ==
    /\ impl \in {"race", "first_start"}
    /\ thread[t].pc = "read"
    /\ disk.lock = "free"
    /\ thread' = [thread EXCEPT
          ![t].d = IF disk.file = "partial" THEN Skeleton ELSE datafile,
          ![t].pc = IF disk.file = "partial" THEN "failed"
                    ELSE IF writes_doc(thread[t].op, datafile) THEN "write"
                    ELSE "done"]
    /\ UNCHANGED <<impl, members, next_id, logs, session, datafile, player_ranks,
                   clock, result, response, hist, avatar_cache, now, cleaner,
                   served, avatar_lock, disk>>

\* write_datafile: takes _file_lock and writes the document to players.tmp
race_write_tmp(t) ==
    /\ impl \in {"race", "first_start"}
    /\ thread[t].pc = "write"
    /\ disk.lock = "free"
    /\ disk' = [disk EXCEPT !.lock = t]
    /\ thread' = [thread EXCEPT ![t].pc = "replace"]
    /\ UNCHANGED <<impl, members, next_id, logs, session, datafile, player_ranks,
                   clock, result, response, hist, avatar_cache, now, cleaner,
                   served, avatar_lock>>

\* write_datafile: tmp.replace(DATA_FILE) and the lock is released; a
\* thread that has players.json open for writing is left with the old file
race_replace(t) ==
    /\ impl \in {"race", "first_start"}
    /\ thread[t].pc = "replace"
    /\ disk.lock = t
    /\ datafile' = apply_doc(thread[t].op, thread[t].d)
    /\ disk' = Whole
    /\ thread' = [u \in RaceThreads |->
                     IF u = t THEN [thread[u] EXCEPT !.pc = "done"]
                     ELSE IF thread[u].pc = "fill"
                            THEN [thread[u] EXCEPT !.pc = "fill_lost"]
                            ELSE thread[u]]
    /\ UNCHANGED <<impl, members, next_id, logs, session, player_ranks,
                   clock, result, response, hist, avatar_cache, now, cleaner,
                   served, avatar_lock>>

----------------------------------------------------------------------------
(* admin_tools.py *)

\* username in player_ranks
has_rank(username) == username \in DOMAIN player_ranks

\* player_ranks[username] = rank
with_rank(username, rank) ==
    [u \in (DOMAIN player_ranks) \cup {username} |->
        IF u = username THEN rank ELSE player_ranks[u]]

\* the ladder's 0-based index of the user's rank, -1 when the user has none
tools_index_of(username) ==
    IF ~has_rank(username) THEN 0 - 1
    ELSE IF contains(PNCO_RANKS, player_ranks[username])
      THEN index(PNCO_RANKS, player_ranks[username])
      ELSE index(PCO_RANKS, player_ranks[username])

\* set_rank_for_user without the check of the rank against the two lists
set_rank_for_user_unchecked(username, rank) ==
    /\ player_ranks' = with_rank(username, rank)
    /\ result' = "None"

\* set_rank_for_user(username, rank)
set_rank_for_user(username, rank) ==
    IF ~contains(PNCO_RANKS, rank) /\ ~contains(PCO_RANKS, rank)
      THEN /\ result' = "ValueError"
           /\ UNCHANGED player_ranks
      ELSE /\ player_ranks' = with_rank(username, rank)
           /\ result' = "None"

\* the rank one step up the single ladder of app.py, PNCO_RANKS followed by
\* PCO_RANKS
ladder_up_single(ladder, rank) ==
    IF index(PNCO_RANKS \o PCO_RANKS, rank) < Len(PNCO_RANKS \o PCO_RANKS) - 1
      THEN (PNCO_RANKS \o PCO_RANKS)[(index(PNCO_RANKS \o PCO_RANKS, rank) + 1) + 1]
      ELSE rank

\* the rank one step up a ladder, the same rank at its top
ladder_up(ladder, rank) ==
    IF index(ladder, rank) < Len(ladder) - 1
      THEN ladder[(index(ladder, rank) + 1) + 1]
      ELSE rank

\* the rank one step down a ladder, the same rank at its bottom
ladder_down(ladder, rank) ==
    IF index(ladder, rank) > 0
      THEN ladder[(index(ladder, rank) - 1) + 1]
      ELSE rank

\* the ladder a rank belongs to
ladder_of(rank) == IF contains(PNCO_RANKS, rank) THEN PNCO_RANKS ELSE PCO_RANKS

\* set_rank_for_user(username, rank) called directly
tools_set_rank(username, rank) ==
    /\ impl = "tools"
    /\ hist' = NoHist
    /\ set_rank_for_user(username, rank)
    /\ UNCHANGED <<cache_vars, disk, impl, members, next_id, logs, session, datafile, clock, response>>

\* add_user(username, rank): set_rank_for_user, then the "added" message
add_user(username, rank) ==
    /\ impl = "tools"
    /\ hist' = NoHist
    /\ IF ~contains(PNCO_RANKS, rank) /\ ~contains(PCO_RANKS, rank)
         THEN /\ result' = "ValueError"
              /\ UNCHANGED player_ranks
         ELSE /\ player_ranks' = with_rank(username, rank)
              /\ result' = "added"
    /\ UNCHANGED <<cache_vars, disk, impl, members, next_id, logs, session, datafile, clock, response>>

\* promote_user(username)
promote_user(username) ==
    /\ impl = "tools"
    /\ hist' = [op |-> "promote", id |-> 0, user |-> username,
                before |-> tools_index_of(username)]
    /\ IF ~has_rank(username)
         THEN /\ result' = "User has no rank assigned."
              /\ UNCHANGED player_ranks
         ELSE LET current_rank == player_ranks[username]
                  up == ladder_up(ladder_of(current_rank), current_rank)
              IN IF up # current_rank
                   THEN /\ player_ranks' = with_rank(username, up)
                        /\ result' = "User promoted"
                   ELSE /\ result' = "Already at highest rank."
                        /\ UNCHANGED player_ranks
    /\ UNCHANGED <<cache_vars, disk, impl, members, next_id, logs, session, datafile, clock, response>>

\* demote_user(username)
demote_user(username) ==
    /\ impl = "tools"
    /\ hist' = [op |-> "demote", id |-> 0, user |-> username,
                before |-> tools_index_of(username)]
    /\ IF ~has_rank(username)
         THEN /\ result' = "User has no rank assigned."
              /\ UNCHANGED player_ranks
         ELSE LET current_rank == player_ranks[username]
                  down == ladder_down(ladder_of(current_rank), current_rank)
              IN IF down # current_rank
                   THEN /\ player_ranks' = with_rank(username, down)
                        /\ result' = "User demoted"
                   ELSE /\ result' = "Already at lowest rank."
                        /\ UNCHANGED player_ranks
    /\ UNCHANGED <<cache_vars, disk, impl, members, next_id, logs, session, datafile, clock, response>>

\* delete_user(username)
delete_user(username) ==
    /\ impl = "tools"
    /\ hist' = NoHist
    /\ IF has_rank(username)
         THEN /\ player_ranks' = [u \in (DOMAIN player_ranks) \ {username} |->
                                     player_ranks[u]]
              /\ result' = "deleted"
         ELSE /\ result' = "User not found."
              /\ UNCHANGED player_ranks
    /\ UNCHANGED <<cache_vars, disk, impl, members, next_id, logs, session, datafile, clock, response>>

----------------------------------------------------------------------------
(* app.py: avatar cache, Roblox helpers, cleaner thread; avatar_live.py *)

\* usernames passed to get_roblox_avatar: member usernames and the empty one
CacheUsernames == Usernames \cup {""}

\* request threads that resolve avatars, beside the cleaner thread
Threads == {"t1"}

\* what the POST to the usernames endpoint can do
UserIdOutcomes ==
    {"network_error", "timeout", "bad_status", "bad_json", "empty_data",
     "no_id", "id"}

\* what the GET of the thumbnails endpoint can do
ThumbOutcomes ==
    {"network_error", "timeout", "bad_status", "bad_json", "empty_data",
     "no_image", "img_a", "img_b"}

\* image URLs of the thumbnails endpoint
ImageUrls == {"img_a", "img_b"}

\* outcomes in which requests raises, raise_for_status raises or json() raises
Raising == {"network_error", "timeout", "bad_json"}

\* usernames resolved in the lock-step runs: two case variants of one key
LockUsernames == {"alice", "Alice"}

\* a request thread outside get_roblox_avatar
Idle == [pc |-> "idle", username |-> "", now |-> 0]

\* the cleaner thread inside time.sleep
Asleep == [pc |-> "sleep", now |-> 0]

NoLookup == [username |-> "", from |-> "none"]

\* _avatar_cache.get(k) is an entry
cached_key(k) == k \in DOMAIN avatar_cache

\* avatar_get_cached comparing with >= : an entry is served at its expiry
avatar_get_cached_at_expiry(username, t) ==
    IF username = "" THEN "None"
    ELSE IF /\ cached_key(lower(username))
            /\ avatar_cache[lower(username)].expiry >= t
         THEN avatar_cache[lower(username)].url
         ELSE "None"

\* avatar_get_cached(username), t the value of now = time.time() it read
\* before taking the lock
avatar_get_cached(username, t) ==
    IF username = "" THEN "None"
    ELSE IF /\ cached_key(lower(username))
            /\ avatar_cache[lower(username)].expiry > t
         THEN avatar_cache[lower(username)].url
         ELSE "None"

\* avatar_set_cached keyed by the username as given
avatar_set_cached_raw_key(username, url) ==
    [k \in (DOMAIN avatar_cache) \cup {username} |->
        IF k = username
        THEN [url |-> url, expiry |-> now + AVATAR_TTL]
        ELSE avatar_cache[k]]

\* avatar_set_cached(username, url): the dict after the assignment
avatar_set_cached(username, url) ==
    [k \in (DOMAIN avatar_cache) \cup {lower(username)} |->
        IF k = lower(username)
        THEN [url |-> url, expiry |-> now + AVATAR_TTL]
        ELSE avatar_cache[k]]

\* to_del left empty: the pass deletes nothing
to_del_nothing(t) == {}

\* to_del with < : an entry whose expiry is the time read stays
to_del_after_expiry(t) ==
    {k \in DOMAIN avatar_cache : avatar_cache[k].expiry < t}

\* to_del = [k for k,v in _avatar_cache.items() if v["expiry"] <= now]
to_del(t) == {k \in DOMAIN avatar_cache : avatar_cache[k].expiry <= t}

\* get_roblox_userid without its try/except
get_roblox_userid_unguarded(outcome) ==
    CASE outcome \in Raising \cup {"bad_status"} -> "Exception"
      [] outcome = "id" -> "uid"
      [] OTHER -> "None"

\* get_roblox_userid: the id, None when the call raises, data is empty or
\* the first element has no id
get_roblox_userid(outcome) ==
    CASE outcome \in Raising \cup {"bad_status"} -> "None"
      [] outcome = "empty_data" -> "None"
      [] outcome = "no_id" -> "None"
      [] outcome = "id" -> "uid"

\* the try block of get_roblox_avatar: imageUrl of the first element, None
\* when the call raises, data is empty or imageUrl is missing or empty
thumbnail_url(outcome) ==
    CASE outcome \in Raising \cup {"bad_status"} -> "None"
      [] outcome = "empty_data" -> "None"
      [] outcome = "no_image" -> "None"
      [] outcome \in ImageUrls -> outcome

\* avatar_live.get_avatar_url: two GETs, a status other than 200 or a
\* missing Id or empty data gives None, and so does anything that raises
get_avatar_url(first, second) ==
    CASE first \in Raising -> "None"
      [] first = "bad_status" -> "None"
      [] first \in {"empty_data", "no_id"} -> "None"
      [] second \in Raising -> "None"
      [] second = "bad_status" -> "None"
      [] second = "empty_data" -> "None"
      [] second = "no_image" -> "None"
      [] second \in ImageUrls -> second

\* the return of get_roblox_avatar in thread t
returns(t, value, from) ==
    /\ result' = value
    /\ served' = [username |-> thread[t].username, from |-> from]
    /\ thread' = [thread EXCEPT ![t] = Idle]

\* get_roblox_avatar(username) is called in thread t: an empty username
\* returns None; otherwise avatar_get_cached lower-cases the key and reads
\* the time, before it takes the lock
resolve_start(t, username) ==
    /\ impl = "cache"
    /\ thread[t].pc = "idle"
    /\ IF username = ""
       THEN /\ result' = "None"
            /\ served' = [username |-> "", from |-> "blank"]
            /\ UNCHANGED thread
       ELSE /\ thread' = [thread EXCEPT
                             ![t] = [pc |-> "get", username |-> username,
                                     now |-> now]]
            /\ UNCHANGED <<result, served>>
    /\ UNCHANGED <<roster_vars, avatar_lock, avatar_cache, now, cleaner>>

\* avatar_get_cached under the lock, then "if cached is not None: return"
resolve_get(t) ==
    /\ impl = "cache"
    /\ thread[t].pc = "get"
    /\ IF avatar_get_cached(thread[t].username, thread[t].now) # "None"
       THEN returns(t, avatar_get_cached(thread[t].username, thread[t].now),
                    "cache")
       ELSE /\ thread' = [thread EXCEPT ![t].pc = "userid", ![t].now = 0]
            /\ UNCHANGED <<result, served>>
    /\ UNCHANGED <<roster_vars, avatar_lock, avatar_cache, now, cleaner>>

\* uid = get_roblox_userid(username); "if not uid": cache None, return None
resolve_userid(t, outcome) ==
    /\ impl = "cache"
    /\ thread[t].pc = "userid"
    /\ CASE get_roblox_userid(outcome) = "Exception" ->
                /\ returns(t, "Exception", "api")
                /\ UNCHANGED avatar_cache
         [] get_roblox_userid(outcome) = "None" ->
                /\ avatar_cache' = avatar_set_cached(thread[t].username, "None")
                /\ returns(t, "None", "api")
         [] OTHER ->
                /\ thread' = [thread EXCEPT ![t].pc = "thumb"]
                /\ UNCHANGED <<avatar_cache, result, served>>
    /\ UNCHANGED <<roster_vars, avatar_lock, now, cleaner>>

\* the thumbnail request and what follows it: the image URL or None is
\* cached and returned
resolve_thumb(t, outcome) ==
    /\ impl = "cache"
    /\ thread[t].pc = "thumb"
    /\ avatar_cache' = avatar_set_cached(thread[t].username,
                                         thumbnail_url(outcome))
    /\ returns(t, thumbnail_url(outcome), "api")
    /\ UNCHANGED <<roster_vars, avatar_lock, now, cleaner>>

\* _avatar_cleaner_loop: time.sleep returns and now = time.time() is read
cleaner_wake ==
    /\ impl = "cache"
    /\ cleaner.pc = "sleep"
    /\ cleaner' = [pc |-> "lock", now |-> now]
    /\ UNCHANGED <<roster_vars, avatar_lock, avatar_cache, now, thread, result, served>>

\* _avatar_cleaner_loop: under the lock, every key of to_del is deleted
cleaner_sweep ==
    /\ impl = "cache"
    /\ cleaner.pc = "lock"
    /\ avatar_cache' = [k \in (DOMAIN avatar_cache) \ to_del(cleaner.now) |->
                           avatar_cache[k]]
    /\ cleaner' = Asleep
    /\ UNCHANGED <<roster_vars, avatar_lock, now, thread, result, served>>

\* In the steps above a thread takes _avatar_lock and releases it within
\* one step, so the lock is free in every state between them.  The steps
\* below are the same code with the lock taken and released in steps of
\* their own.

\* the threads that use the cache beside the cleaner: a request handler
\* and the prefetch thread that add_member starts
LockThreads == {"request", "prefetch"}

\* a thread of LockThreads outside get_roblox_avatar
LockIdle == [pc |-> "idle", username |-> "", now |-> 0, url |-> "None"]

\* "with _avatar_lock" entered without waiting for the lock
acquire_without_wait(who) == avatar_lock' = who

\* "with _avatar_lock": entered when the lock is free
acquire(who) ==
    /\ avatar_lock = "free"
    /\ avatar_lock' = who

\* the end of a "with _avatar_lock" block that keeps the lock
release_skipped(who) == avatar_lock' = avatar_lock

\* the end of a "with _avatar_lock" block, a return out of it included
release(who) ==
    /\ avatar_lock = who
    /\ avatar_lock' = "free"

\* get_roblox_avatar(username) is called; avatar_get_cached reads the time
lock_call(t, username) ==
    /\ impl = "lock"
    /\ thread[t].pc = "idle"
    /\ thread' = [thread EXCEPT ![t] = [pc |-> "get_wait", username |-> username,
                                        now |-> now, url |-> "None"]]
    /\ UNCHANGED <<roster_vars, avatar_cache, now, cleaner, result, served,
                   avatar_lock>>

\* avatar_get_cached enters its "with _avatar_lock"
lock_get_enter(t) ==
    /\ impl = "lock"
    /\ thread[t].pc = "get_wait"
    /\ acquire(t)
    /\ thread' = [thread EXCEPT ![t].pc = "get_in"]
    /\ UNCHANGED <<roster_vars, avatar_cache, now, cleaner, result, served>>

\* avatar_get_cached reads the dict and leaves the block; a value other
\* than None is returned by get_roblox_avatar, otherwise the username
\* request is sent
lock_get_read(t) ==
    /\ impl = "lock"
    /\ thread[t].pc = "get_in"
    /\ release(t)
    /\ IF avatar_get_cached(thread[t].username, thread[t].now) # "None"
       THEN /\ result' = avatar_get_cached(thread[t].username, thread[t].now)
            /\ thread' = [thread EXCEPT ![t] = LockIdle]
       ELSE /\ thread' = [thread EXCEPT ![t].pc = "userid", ![t].now = 0]
            /\ UNCHANGED result
    /\ UNCHANGED <<roster_vars, avatar_cache, now, cleaner, served>>

\* the username request ends: without an id None is to be cached,
\* otherwise the thumbnail request is sent
lock_userid(t, outcome) ==
    /\ impl = "lock"
    /\ thread[t].pc = "userid"
    /\ thread' = [thread EXCEPT
                      ![t].pc = IF get_roblox_userid(outcome) = "None"
                                  THEN "set_wait" ELSE "thumb"]
    /\ UNCHANGED <<roster_vars, avatar_cache, now, cleaner, result, served,
                   avatar_lock>>

\* the thumbnail request ends: its image URL or None is to be cached
lock_thumb(t, outcome) ==
    /\ impl = "lock"
    /\ thread[t].pc = "thumb"
    /\ thread' = [thread EXCEPT ![t].pc = "set_wait",
                                ![t].url = thumbnail_url(outcome)]
    /\ UNCHANGED <<roster_vars, avatar_cache, now, cleaner, result, served,
                   avatar_lock>>

\* avatar_set_cached enters its "with _avatar_lock"
lock_set_enter(t) ==
    /\ impl = "lock"
    /\ thread[t].pc = "set_wait"
    /\ acquire(t)
    /\ thread' = [thread EXCEPT ![t].pc = "set_in"]
    /\ UNCHANGED <<roster_vars, avatar_cache, now, cleaner, result, served>>

\* avatar_set_cached writes the entry and leaves the block;
\* get_roblox_avatar returns the value
lock_set_write(t) ==
    /\ impl = "lock"
    /\ thread[t].pc = "set_in"
    /\ release(t)
    /\ avatar_cache' = avatar_set_cached(thread[t].username, thread[t].url)
    /\ result' = thread[t].url
    /\ thread' = [thread EXCEPT ![t] = LockIdle]
    /\ UNCHANGED <<roster_vars, now, cleaner, served>>

\* _avatar_cleaner_loop: time.sleep returns and the time is read
lock_cleaner_wake ==
    /\ impl = "lock"
    /\ cleaner.pc = "sleep"
    /\ cleaner' = [pc |-> "wait", now |-> now]
    /\ UNCHANGED <<roster_vars, avatar_cache, now, thread, result, served,
                   avatar_lock>>

\* _avatar_cleaner_loop enters its "with _avatar_lock"
lock_cleaner_enter ==
    /\ impl = "lock"
    /\ cleaner.pc = "wait"
    /\ acquire("cleaner")
    /\ cleaner' = [cleaner EXCEPT !.pc = "in"]
    /\ UNCHANGED <<roster_vars, avatar_cache, now, thread, result, served>>

\* _avatar_cleaner_loop deletes the keys of to_del and leaves the block
lock_cleaner_sweep ==
    /\ impl = "lock"
    /\ cleaner.pc = "in"
    /\ release("cleaner")
    /\ avatar_cache' = [k \in (DOMAIN avatar_cache) \ to_del(cleaner.now) |->
                           avatar_cache[k]]
    /\ cleaner' = Asleep
    /\ UNCHANGED <<roster_vars, now, thread, result, served>>

\* a second passes
lock_tick ==
    /\ impl = "lock"
    /\ now < MaxTime
    /\ now' = now + 1
    /\ UNCHANGED <<roster_vars, avatar_cache, thread, cleaner, result, served,
                   avatar_lock>>

\* avatar_live.get_avatar_url(username): a module of its own, no cache
live_get_avatar_url(username, first, second) ==
    /\ impl = "live"
    /\ result' = get_avatar_url(first, second)
    /\ served' = [username |-> username, from |-> "live"]
    /\ UNCHANGED <<roster_vars, avatar_lock, avatar_cache, now, thread, cleaner>>

\* a second passes
tick ==
    /\ impl = "cache"
    /\ now < MaxTime
    /\ now' = now + 1
    /\ UNCHANGED <<roster_vars, avatar_lock, avatar_cache, thread, cleaner, result, served>>

----------------------------------------------------------------------------
(* Specification *)

Init ==
    /\ impl \in {"db", "file", "tools"}
    /\ members = {}
    /\ next_id = 1
    /\ logs = <<>>
    /\ session = NoSession
    /\ datafile = [members |-> <<>>, logs |-> <<>>]
    /\ player_ranks = <<>>
    /\ clock = 0
    /\ result = "None"
    /\ response = "None"
    /\ hist = NoHist
    /\ avatar_cache = <<>>
    /\ now = 0
    /\ thread = [t \in Threads |-> Idle]
    /\ cleaner = Asleep
    /\ served = NoLookup
    /\ avatar_lock = "free"
    /\ disk = Whole

\* the logs table of the model is capped at MaxLog rows
log_room == Len(logs) < MaxLog

Next ==
    \/ \E c \in Credentials : log_room /\ login(c[1], c[2])
    \/ log_room /\ logout
    \/ \E u \in FormUsernames, r \in FormRanks : log_room /\ add_member(u, r)
    \/ \E i \in ReqIds : log_room /\ delete_member(i)
    \/ \E i \in ReqIds : log_room /\ promote_member(i)
    \/ \E i \in ReqIds : log_room /\ demote_member(i)
    \/ index_route
    \/ \E u \in Usernames, r \in FormRanks : file_add_member(u, file_route_rank(r))
    \/ \E i \in ReqIds : file_delete_member(i)
    \/ \E i \in ReqIds, delta \in {1, 0 - 1} : file_change_member_rank(i, delta)
    \/ \E u \in ToolUsers, r \in ToolRanks : tools_set_rank(u, r)
    \/ \E u \in ToolUsers, r \in ToolRanks : add_user(u, r)
    \/ \E u \in ToolUsers : promote_user(u)
    \/ \E u \in ToolUsers : demote_user(u)
    \/ \E u \in ToolUsers : delete_user(u)

Spec == Init /\ [][Next]_vars

----------------------------------------------------------------------------
(* The rank ladder walked end to end: the first copy of app.py after the   *)
(* admin logged in and added "alice" at some rank, then only promote       *)
(* requests, or only demote requests, for that member.                     *)

\* every request after the add was this action
run_of(action) == \A k \in 3..Len(logs) : logs[k].action = action

InitLadder ==
    /\ impl = "db"
    /\ \E i \in 0..(N - 1) :
          /\ members = { [id |-> 1, username |-> "alice", rank_index |-> i,
                          created_at |-> 1] }
          /\ logs = << [admin |-> "admin", action |-> "login",
                        details |-> "admin logged in"],
                       [admin |-> "admin", action |-> "add",
                        details |-> "alice -> " \o rank_name(i)] >>
    /\ next_id = 2
    /\ session = [is_admin |-> TRUE, admin_user |-> "admin"]
    /\ datafile = [members |-> <<>>, logs |-> <<>>]
    /\ player_ranks = <<>>
    /\ clock = 1
    /\ result = "None"
    /\ response = "redirect_index"
    /\ hist = NoHist
    /\ avatar_cache = <<>>
    /\ now = 0
    /\ thread = [t \in Threads |-> Idle]
    /\ cleaner = Asleep
    /\ served = NoLookup
    /\ avatar_lock = "free"
    /\ disk = Whole

\* one more promote request in a run of promotes
ladder_promote ==
    /\ Len(logs) < 2 + MaxRun
    /\ run_of("promote")
    /\ promote_member(1)

\* one more demote request in a run of demotes
ladder_demote ==
    /\ Len(logs) < 2 + MaxRun
    /\ run_of("demote")
    /\ demote_member(1)

NextLadder == ladder_promote \/ ladder_demote

SpecLadder == InitLadder /\ [][NextLadder]_vars

\* the application just started: an empty cache, the cleaner asleep
InitCache ==
    /\ impl \in {"cache", "live"}
    /\ members = {}
    /\ next_id = 1
    /\ logs = <<>>
    /\ session = NoSession
    /\ datafile = [members |-> <<>>, logs |-> <<>>]
    /\ player_ranks = <<>>
    /\ clock = 0
    /\ result = "None"
    /\ response = "None"
    /\ hist = NoHist
    /\ avatar_cache = <<>>
    /\ now = 0
    /\ thread = [t \in Threads |-> Idle]
    /\ cleaner = Asleep
    /\ served = NoLookup
    /\ avatar_lock = "free"
    /\ disk = Whole

NextCache ==
    \/ \E t \in Threads, u \in CacheUsernames : resolve_start(t, u)
    \/ \E t \in Threads : resolve_get(t)
    \/ \E t \in Threads, o \in UserIdOutcomes : resolve_userid(t, o)
    \/ \E t \in Threads, o \in ThumbOutcomes : resolve_thumb(t, o)
    \/ cleaner_wake
    \/ cleaner_sweep
    \/ \E u \in Usernames, first \in UserIdOutcomes, second \in ThumbOutcomes :
           live_get_avatar_url(u, first, second)
    \/ tick

SpecCache == InitCache /\ [][NextCache]_vars

\* the file copy with an empty audit log
InitFileLog ==
    /\ impl = "filelog"
    /\ members = {}
    /\ next_id = 1
    /\ logs = <<>>
    /\ session = NoSession
    /\ datafile = [members |-> <<>>, logs |-> <<>>]
    /\ player_ranks = <<>>
    /\ clock = 0
    /\ result = <<>>
    /\ response = "None"
    /\ hist = NoHist
    /\ avatar_cache = <<>>
    /\ now = 0
    /\ thread = [t \in Threads |-> Idle]
    /\ cleaner = Asleep
    /\ served = NoLookup
    /\ avatar_lock = "free"
    /\ disk = Whole

\* one admin and one kind of entry: the entries differ by their timestamp
NextFileLog ==
    \/ file_log_action("admin", "promote", "id:1")
    \/ \E limit \in LogLimits : file_get_logs(limit)

SpecFileLog == InitFileLog /\ [][NextFileLog]_vars

\* both stores of the second copy, empty, given the same calls
InitStores ==
    /\ impl = "stores"
    /\ members = {}
    /\ next_id = 1
    /\ logs = <<>>
    /\ session = NoSession
    /\ datafile = [members |-> <<>>, logs |-> <<>>]
    /\ player_ranks = <<>>
    /\ clock = 0
    /\ result = <<"None", "None">>
    /\ response = "None"
    /\ hist = NoHist
    /\ avatar_cache = <<>>
    /\ now = 0
    /\ thread = [t \in Threads |-> Idle]
    /\ cleaner = Asleep
    /\ served = NoLookup
    /\ avatar_lock = "free"
    /\ disk = Whole

NextStores ==
    \/ \E u \in Usernames, r \in StoreRanks : stores_add_member(u, r)
    \/ \E i \in ReqIds : stores_delete_member(i)
    \/ \E i \in ReqIds, delta \in {1, 0 - 1} : stores_change_member_rank(i, delta)

SpecStores == InitStores /\ [][NextStores]_vars

\* two request threads about to run: on the file store with players.json
\* holding two members, on the file store before players.json exists, and
\* on the first copy with an admin logged in and no members
InitRace ==
    /\ impl \in {"race", "first_start", "add_race"}
    /\ members = {}
    /\ next_id = 1
    /\ logs = IF impl = "add_race"
                THEN << [admin |-> "admin", action |-> "login",
                         details |-> "admin logged in"] >>
                ELSE <<>>
    /\ session = IF impl = "add_race"
                   THEN [is_admin |-> TRUE, admin_user |-> "admin"]
                   ELSE NoSession
    /\ datafile = IF impl = "race" THEN RaceStart ELSE Skeleton
    /\ player_ranks = <<>>
    /\ clock = IF impl = "race" THEN 2 ELSE 0
    /\ result = "None"
    /\ response = "None"
    /\ hist = NoHist
    /\ avatar_cache = <<>>
    /\ now = 0
    /\ thread = [t \in RaceThreads |-> RaceIdle]
    /\ cleaner = Asleep
    /\ served = NoLookup
    /\ avatar_lock = "free"
    /\ disk = IF impl = "first_start"
                THEN [file |-> "missing", lock |-> "free"]
                ELSE Whole

NextRace ==
    \/ \E t \in RaceThreads, op \in RaceOps : race_call(t, op)
    \/ \E t \in RaceThreads : race_exists(t)
    \/ \E t \in RaceThreads : race_create(t)
    \/ \E t \in RaceThreads : race_fill(t)
    \/ \E t \in RaceThreads : race_read(t)
    \/ \E t \in RaceThreads : race_write_tmp(t)
    \/ \E t \in RaceThreads : race_replace(t)
    \/ \E t \in RaceThreads, u \in FormUsernames : add_race_check(t, u)
    \/ \E t \in RaceThreads : add_race_insert(t)
    \/ \E t \in RaceThreads : add_race_log(t)

SpecRace == InitRace /\ [][NextRace]_vars

\* the application just started, seen lock step by lock step
InitLock ==
    /\ impl = "lock"
    /\ members = {}
    /\ next_id = 1
    /\ logs = <<>>
    /\ session = NoSession
    /\ datafile = [members |-> <<>>, logs |-> <<>>]
    /\ player_ranks = <<>>
    /\ clock = 0
    /\ result = "None"
    /\ response = "None"
    /\ hist = NoHist
    /\ avatar_cache = <<>>
    /\ now = 0
    /\ thread = [t \in LockThreads |-> LockIdle]
    /\ cleaner = Asleep
    /\ served = NoLookup
    /\ avatar_lock = "free"
    /\ disk = Whole

NextLock ==
    \/ \E t \in LockThreads, u \in LockUsernames : lock_call(t, u)
    \/ \E t \in LockThreads : lock_get_enter(t)
    \/ \E t \in LockThreads : lock_get_read(t)
    \/ \E t \in LockThreads, o \in UserIdOutcomes : lock_userid(t, o)
    \/ \E t \in LockThreads, o \in ThumbOutcomes : lock_thumb(t, o)
    \/ \E t \in LockThreads : lock_set_enter(t)
    \/ \E t \in LockThreads : lock_set_write(t)
    \/ lock_cleaner_wake
    \/ lock_cleaner_enter
    \/ lock_cleaner_sweep
    \/ lock_tick

SpecLock == InitLock /\ [][NextLock]_vars

----------------------------------------------------------------------------
(* db_sync.py, db.py: players.json copied into the members and logs tables *)

\* a timestamp string of players.json: the instant and the UTC offset text;
\* the file store writes datetime.now(timezone.utc).isoformat(), "+00:00"
IsoOffsets == { "+00:00", "Z", "" }

\* None in place of a datetime
NoDate == [t |-> 0 - 1, tzinfo |-> "None"]

\* dt_str.replace("Z", "+00:00")
replace_Z(offset) == IF offset = "Z" THEN "+00:00" ELSE offset

\* parse_iso8601(dt_str): an aware datetime for a string with an offset, a
\* naive one for a string without, None for anything else
parse_iso8601(dt_str) ==
    IF dt_str.offset \notin IsoOffsets THEN NoDate
    ELSE [t |-> dt_str.t,
          tzinfo |-> IF replace_Z(dt_str.offset) = "+00:00" THEN "utc" ELSE "None"]

\* a TIMESTAMP column holds no zone: the value written, and read back, is
\* the naive datetime of the instant (session time zone UTC)
timestamp_column(dt) == [t |-> dt.t, tzinfo |-> "None"]

\* datetime.utcnow()
utcnow == [t |-> clock, tzinfo |-> "None"]

\* the tuple sync_members builds for one member of the file
member_tuple(m) ==
    [id |-> m.id, username |-> m.username, rank_index |-> m.rank_index,
     created_at |-> IF parse_iso8601(m.created_at) = NoDate
                      THEN utcnow ELSE parse_iso8601(m.created_at)]

\* INSERT ... ON CONFLICT (id) DO UPDATE for the tuples in order; username
\* is UNIQUE, so a tuple whose username is that of a row with another id
\* fails the statement
RECURSIVE upsert(_, _)
upsert(data, table) ==
    IF data = <<>> THEN [ok |-> TRUE, rows |-> table]
    ELSE LET r == Head(data)
         IN IF \E x \in table : x.id # r.id /\ x.username = r.username
              THEN [ok |-> FALSE, rows |-> table]
              ELSE upsert(Tail(data),
                          {x \in table : x.id # r.id}
                          \cup {[r EXCEPT !.created_at = timestamp_column(@)]})

\* key = (at, admin, action, details) of one log entry of the file
log_key(log) ==
    [at |-> parse_iso8601(log.at), admin |-> log.admin,
     action |-> log.action, details |-> log.details]

\* the loop of sync_logs: the keys not in existing, each added to existing
RECURSIVE new_logs(_, _)
new_logs(file_logs, existing) ==
    IF file_logs = <<>> THEN <<>>
    ELSE LET key == log_key(Head(file_logs))
         IN IF key \in existing
              THEN new_logs(Tail(file_logs), existing)
              ELSE <<key>> \o new_logs(Tail(file_logs), existing \cup {key})

\* the rows of a sequence
rows_of(table) == { table[i] : i \in 1..Len(table) }

\* main() up to the end of sync_members; a failed statement ends the run
sync_members ==
    /\ impl = "sync"
    /\ hist.op = "start"
    /\ hist.id < MaxSyncRuns
    /\ LET data == [i \in 1..Len(datafile.members) |->
                        member_tuple(datafile.members[i])]
           done == upsert(data, members)
       IN IF done.ok
            THEN /\ members' = done.rows
                 /\ result' = "None"
                 /\ hist' = [hist EXCEPT !.op = "members_done"]
            ELSE /\ UNCHANGED members
                 /\ result' = "UniqueViolation"
                 /\ hist' = [hist EXCEPT !.id = @ + 1]
    /\ UNCHANGED <<cache_vars, disk, impl, next_id, logs, session, datafile,
                   player_ranks, clock, response>>

\* main() from sync_logs to its end
sync_logs ==
    /\ impl = "sync"
    /\ hist.op = "members_done"
    /\ LET data == new_logs(datafile.logs, rows_of(logs))
       IN logs' = logs \o [i \in 1..Len(data) |->
                              [data[i] EXCEPT !.at = timestamp_column(@)]]
    /\ result' = "None"
    /\ hist' = [hist EXCEPT !.op = "start", !.id = @ + 1]
    /\ UNCHANGED <<cache_vars, disk, impl, members, next_id, session, datafile,
                   player_ranks, clock, response>>

\* members of a players.json written by the file store: ids from 1, one
\* lower-cased username each
SyncMemberRows ==
    [id : {1, 2}, username : {"alice", "bob"}, rank_index : {0},
     created_at : {[t |-> 1, offset |-> "+00:00"]}]

SyncMemberLists ==
    {<<>>} \cup { <<m>> : m \in SyncMemberRows }
    \cup { l \in { <<m1, m2>> : m1 \in SyncMemberRows, m2 \in SyncMemberRows } :
               l[1].id # l[2].id /\ l[1].username # l[2].username }

\* log entries of a players.json: written by the file store ("+00:00"),
\* or copied from get_logs of the database store (no offset)
SyncLogRows ==
    [at : [t : {1}, offset : IsoOffsets], admin : {"admin"},
     action : {"add", "promote"}, details : {"id:1"}]

SyncLogLists ==
    {<<>>} \cup { <<l>> : l \in SyncLogRows }
    \cup { <<l1, l2>> : l1 \in SyncLogRows, l2 \in SyncLogRows }

\* the members table before the first run: empty, or a row an earlier run
\* left
SyncMemberTables ==
    { {},
      {[id |-> 1, username |-> "alice", rank_index |-> 3,
        created_at |-> [t |-> 0, tzinfo |-> "None"]]},
      {[id |-> 2, username |-> "alice", rank_index |-> 3,
        created_at |-> [t |-> 0, tzinfo |-> "None"]]} }

\* the logs table before the first run
SyncLogTables ==
    { <<>>,
      <<[at |-> [t |-> 1, tzinfo |-> "None"], admin |-> "admin",
         action |-> "add", details |-> "id:1"]>> }

InitSync ==
    /\ impl = "sync"
    /\ members \in SyncMemberTables
    /\ next_id = 1
    /\ logs \in SyncLogTables
    /\ session = NoSession
    /\ datafile \in [members : SyncMemberLists, logs : SyncLogLists]
    /\ player_ranks = <<>>
    /\ clock = 2
    /\ result = "None"
    /\ response = "None"
    /\ hist = [op |-> "start", id |-> 0, user |-> "", before |-> 0 - 1]
    /\ avatar_cache = <<>>
    /\ now = 0
    /\ thread = [t \in Threads |-> Idle]
    /\ cleaner = Asleep
    /\ served = NoLookup
    /\ avatar_lock = "free"
    /\ disk = Whole

NextSync ==
    \/ sync_members
    \/ sync_logs

SpecSync == InitSync /\ [][NextSync]_vars

\* the cleaner is a daemon thread in a loop of its own: whenever it can wake
\* or sweep, it eventually does
SpecCacheFair ==
    SpecCache /\ WF_vars(cleaner_wake) /\ WF_vars(cleaner_sweep)

----------------------------------------------------------------------------
(* Properties *)

\* the stored rank index of the member with this id in the running copy,
\* -1 when there is none
cur_rank(member_id) ==
    IF impl = "db" THEN rank_of(member_id) ELSE file_rank_of(member_id)

\* the member with this id is in the roster of the running copy
is_member(member_id) == cur_rank(member_id) # 0 - 1

\* C1: in the database copy and in the file copy every stored member's
\* rank_index is within [0, N-1], whatever rank_index the add form sent.
C1_RankIndexInRange ==
    /\ impl = "db" => \A m \in members : m.rank_index \in 0..(N - 1)
    /\ impl = "file" =>
          \A i \in 1..Len(datafile.members) :
              datafile.members[i].rank_index \in 0..(N - 1)

\* an add that sent an index above the ladder stored the top index
C1_Witness ==
    /\ impl = "db"
    /\ \E m \in members : m.rank_index = N - 1

\* C2: a promote of an existing member below the top index, and a demote of
\* an existing member above index 0, moves the stored index by exactly one.
C2_ExactlyOneStep ==
    [][ \A id \in ReqIds :
          /\ ( /\ impl \in {"db", "file"}
               /\ hist'.op = "promote" /\ hist'.id = id
               /\ cur_rank(id) \in 0..(N - 2) )
             => (cur_rank(id)' - cur_rank(id) \in {1, 0 - 1}
                 /\ cur_rank(id)' \in 0..(N - 1))
          /\ ( /\ impl \in {"db", "file"}
               /\ hist'.op = "demote" /\ hist'.id = id
               /\ cur_rank(id) \in 1..(N - 1) )
             => (cur_rank(id)' - cur_rank(id) \in {1, 0 - 1}
                 /\ cur_rank(id)' \in 0..(N - 1)) ]_vars

\* a promote request moved a member from index 7 to index 8
C2_Witness ==
    /\ impl = "db"
    /\ hist.op = "promote"
    /\ hist.before = 7
    /\ rank_of(hist.id) = 8

\* a rank-change request for a member that is already at the bound it pushes
\* against: promote at the top index or demote at index 0 (per ladder in
\* admin_tools)
db_at_bound(id) ==
    /\ impl = "db"
    /\ session.is_admin
    /\ \/ hist'.op = "promote" /\ hist'.id = id /\ rank_of(id) = N - 1
       \/ hist'.op = "demote" /\ hist'.id = id /\ rank_of(id) = 0

tools_at_bound(u) ==
    /\ impl = "tools"
    /\ has_rank(u)
    /\ \/ /\ hist'.op = "promote" /\ hist'.user = u
          /\ tools_index_of(u) = Len(ladder_of(player_ranks[u])) - 1
       \/ /\ hist'.op = "demote" /\ hist'.user = u
          /\ tools_index_of(u) = 0

\* what a rank change reports when it did change the rank
ChangeReports == { "True", "User promoted", "User demoted" }

\* C3: a promote at the top rank or a demote at the bottom rank leaves the
\* rank unchanged and reports to its caller that nothing changed, that is a
\* value other than the one a real rank change reports.
C3_BoundaryReportsNoChange ==
    [][ /\ \A id \in ReqIds :
              db_at_bound(id) =>
                  (rank_of(id)' = rank_of(id) /\ result' \notin ChangeReports)
        /\ \A u \in ToolUsers :
              tools_at_bound(u) =>
                  (player_ranks' = player_ranks /\ result' \notin ChangeReports)
      ]_vars

\* C4: a promote at the top rank or a demote at the bottom rank persists
\* nothing and records no audit-log entry.
C4_BoundaryWritesNothing ==
    [][ \A id \in ReqIds :
            db_at_bound(id) => (members' = members /\ logs' = logs) ]_vars

\* the run started with "alice" added at index i
ladder_start(i) == logs[2].details = "alice -> " \o rank_name(i)

\* the number of promote (or demote) requests of the run so far
ladder_steps == Len(logs) - 2

\* C5: in a run of promotes from index i the member is at index i + k after
\* k promotes while that is below the top, so each promote raises the rank
\* by one, the top is reached from index 0 after exactly N-1 promotes, and
\* it is kept from then on; symmetrically for a run of demotes down to 0.
C5_LadderWalk ==
    \A i \in 0..(N - 1) :
        ladder_start(i) =>
            /\ (run_of("promote") /\ i + ladder_steps <= N - 1)
                   => rank_of(1) = i + ladder_steps
            /\ (run_of("promote") /\ i + ladder_steps > N - 1)
                   => rank_of(1) = N - 1
            /\ (run_of("demote") /\ i - ladder_steps >= 0)
                   => rank_of(1) = i - ladder_steps
            /\ (run_of("demote") /\ i - ladder_steps < 0)
                   => rank_of(1) = 0

\* the top was reached from the lowest rank with the (N-1)th promote
C5_Witness ==
    /\ ladder_start(0)
    /\ ladder_steps = N - 1
    /\ hist.op = "promote"
    /\ hist.before = N - 2
    /\ rank_of(1) = N - 1

\* a promote or demote request of an admin that found its member
rank_change(op, id) ==
    /\ impl = "db"
    /\ hist'.op = op /\ hist'.id = id
    /\ is_member(id)

\* C6 as stated, for the routes of the first copy of app.py: promote maps
\* index i to max(i - 1, 0), demote maps it to
\* min(i + 1, N-1), and no other operation changes a member's rank index.
C6_AsStated ==
    [][ \A id \in ReqIds :
          /\ rank_change("promote", id) => cur_rank(id)' = max(cur_rank(id) - 1, 0)
          /\ rank_change("demote", id) => cur_rank(id)' = min(cur_rank(id) + 1, N - 1)
          /\ (impl = "db" /\ hist'.op = "other"
              /\ is_member(id) /\ is_member(id)')
                => cur_rank(id)' = cur_rank(id) ]_vars

\* C6 amended, for the routes of the first copy of app.py: promote maps
\* index i to min(i + 1, N-1), demote maps it to
\* max(i - 1, 0), and no other operation changes a member's rank index.
C6_RankStateMachine ==
    [][ \A id \in ReqIds :
          /\ rank_change("promote", id) =>
                cur_rank(id)' = (IF cur_rank(id) + 1 > N - 1 THEN N - 1
                                 ELSE cur_rank(id) + 1)
          /\ rank_change("demote", id) =>
                cur_rank(id)' = (IF cur_rank(id) - 1 < 0 THEN 0
                                 ELSE cur_rank(id) - 1)
          /\ (impl = "db" /\ hist'.op = "other"
              /\ is_member(id) /\ is_member(id)')
                => cur_rank(id)' = cur_rank(id) ]_vars

\* a demote request moved a member from index 7 to index 6
C6_Witness ==
    /\ impl = "db"
    /\ hist.op = "demote"
    /\ hist.before = 7
    /\ rank_of(hist.id) = 6

\* C7: a promote directly followed by a demote of the same member returns it
\* to its index unless the promote was blocked at the top, and a demote
\* directly followed by a promote returns it unless the demote was blocked
\* at the bottom; so both orders return from every interior index, and the
\* unblocked order returns from each end.  In admin_tools the ends are those
\* of the user's own ladder.
C7_RoundTrip ==
    [][ /\ \A id \in ReqIds :
              /\ ( /\ impl \in {"db", "file"}
                   /\ hist.op = "promote" /\ hist.id = id
                   /\ hist'.op = "demote" /\ hist'.id = id
                   /\ hist.before \in 0..(N - 2) )
                 => cur_rank(id)' = hist.before
              /\ ( /\ impl \in {"db", "file"}
                   /\ hist.op = "demote" /\ hist.id = id
                   /\ hist'.op = "promote" /\ hist'.id = id
                   /\ hist.before \in 1..(N - 1) )
                 => cur_rank(id)' = hist.before
        /\ \A u \in ToolUsers :
              /\ ( /\ impl = "tools" /\ has_rank(u)
                   /\ hist.op = "promote" /\ hist.user = u
                   /\ hist'.op = "demote" /\ hist'.user = u
                   /\ hist.before \in 0..(Len(ladder_of(player_ranks[u])) - 2) )
                 => player_ranks'[u] = ladder_of(player_ranks[u])[hist.before + 1]
              /\ ( /\ impl = "tools" /\ has_rank(u)
                   /\ hist.op = "demote" /\ hist.user = u
                   /\ hist'.op = "promote" /\ hist'.user = u
                   /\ hist.before \in 1..(Len(ladder_of(player_ranks[u])) - 1) )
                 => player_ranks'[u] = ladder_of(player_ranks[u])[hist.before + 1]
      ]_vars

\* member 1 was promoted from index 7 and then demoted back to it
C7_Witness ==
    /\ impl = "db"
    /\ Len(logs) >= 2
    /\ logs[Len(logs) - 1].action = "promote"
    /\ logs[Len(logs) - 1].details = "id:1"
    /\ logs[Len(logs)].action = "demote"
    /\ logs[Len(logs)].details = "id:1"
    /\ hist = [op |-> "demote", id |-> 1, user |-> "", before |-> 8]
    /\ rank_of(1) = 7

\* the username equals an existing member's username case-insensitively
db_has_username(username) ==
    \E m \in members : lower(m.username) = lower(username)

file_has_username(username) ==
    \E i \in 1..Len(datafile.members) :
        lower(datafile.members[i].username) = lower(username)

tools_has_username(username) ==
    \E v \in DOMAIN player_ranks : lower(v) = lower(username)

\* C8: in every roster implementation an add whose username equals an
\* existing member's case-insensitively leaves the roster and the audit log
\* unchanged.
C8_DuplicateAddRejected ==
    [][ /\ \A fu \in FormUsernames, fr \in FormRanks :
              (add_member(fu, fr) /\ session.is_admin /\ db_has_username(strip(fu)))
                  => (members' = members /\ logs' = logs)
        /\ \A u \in Usernames, ri \in 0..(N - 1) :
              (file_add_member(u, ri) /\ file_has_username(u))
                  => datafile' = datafile
        /\ \A u \in ToolUsers, r \in ToolRanks :
              (add_user(u, r) /\ tools_has_username(u))
                  => player_ranks' = player_ranks
      ]_vars

\* the index the ladder allows that is nearest to the one the form sent
nearest_index(form_rank) ==
    IF form_int(form_rank) < 0 THEN 0
    ELSE IF form_int(form_rank) > N - 1 THEN N - 1
    ELSE form_int(form_rank)

\* C9: an add request by an admin with a non-empty username that no member
\* has (case-insensitively) creates exactly one member, with that username,
\* a fresh id and the requested index clamped into [0, N-1], appends exactly
\* one audit entry, and leaves every other member as it was.
C9_AddCreatesOneMember ==
    [][ \A fu \in FormUsernames, fr \in FormRanks :
          ( /\ add_member(fu, fr)
            /\ session.is_admin
            /\ strip(fu) # ""
            /\ ~db_has_username(strip(fu)) )
          => /\ members \subseteq members'
             /\ Cardinality(members') = Cardinality(members) + 1
             /\ \A m \in members' \ members :
                   /\ m.username = strip(fu)
                   /\ m.rank_index = nearest_index(fr)
                   /\ \A o \in members : o.id # m.id
             /\ Len(logs') = Len(logs) + 1
             /\ SubSeq(logs', 1, Len(logs)) = logs
             /\ logs'[Len(logs')].action = "add" ]_vars

\* "bob" was added from a form that sent " bob " and index 16
C9_Witness ==
    /\ impl = "db"
    /\ Len(logs) > 0
    /\ logs[Len(logs)].action = "add"
    /\ logs[Len(logs)].details = "bob -> " \o rank_name(N - 1)
    /\ \E m \in members : m.username = "bob" /\ m.rank_index = N - 1

\* C10: deleting a member id that is not in the roster changes neither the
\* roster nor the audit log and completes with the result of a delete that
\* found nothing.
C10_DeleteAbsentIsNoOp ==
    [][ /\ \A id \in ReqIds :
              /\ ( /\ delete_member(id) /\ session.is_admin
                   /\ \A m \in members : m.id # id )
                 => /\ members' = members
                    /\ logs' = logs
                    /\ result' = "False"
                    /\ response' = "redirect_index"
              /\ ( /\ file_delete_member(id)
                   /\ \A i \in 1..Len(datafile.members) :
                          datafile.members[i].id # id )
                 => (datafile' = datafile /\ result' = "False")
        /\ \A u \in ToolUsers :
              (delete_user(u) /\ u \notin DOMAIN player_ranks)
                 => (player_ranks' = player_ranks /\ result' = "User not found.")
      ]_vars

\* an admin's delete request for an id no member has, with a member present
C10_Witness ==
    /\ impl = "db"
    /\ session.is_admin
    /\ members # {}
    /\ hist = NoHist
    /\ result = "False"
    /\ response = "redirect_index"

\* C11: deleting a member id that is in the roster removes exactly that
\* member, leaves every other member's id, username and rank index as they
\* were, and (in the routes of the first copy) appends one audit entry.
C11_DeleteRemovesOneMember ==
    [][ \A id \in ReqIds :
          /\ ( /\ delete_member(id) /\ session.is_admin
               /\ \E m \in members : m.id = id )
             => /\ members' \subseteq members
                /\ Cardinality(members') = Cardinality(members) - 1
                /\ \A m \in members : (m \in members') <=> (m.id # id)
                /\ Len(logs') = Len(logs) + 1
                /\ SubSeq(logs', 1, Len(logs)) = logs
                /\ logs'[Len(logs')].action = "delete"
                /\ logs'[Len(logs')].details = "id:" \o ToString(id)
          /\ ( /\ file_delete_member(id)
               /\ \E i \in 1..Len(datafile.members) : datafile.members[i].id = id )
             => /\ Len(datafile'.members) = Len(datafile.members) - 1
                /\ \A i \in 1..Len(datafile'.members) : datafile'.members[i].id # id
                /\ \A i \in 1..Len(datafile.members) :
                      datafile.members[i].id # id =>
                          \E j \in 1..Len(datafile'.members) :
                              datafile'.members[j] = datafile.members[i]
                /\ result' = "True" ]_vars

\* member 1 of two was deleted and member 2 is still there
C11_Witness ==
    /\ impl = "db"
    /\ Len(logs) > 0
    /\ logs[Len(logs)].action = "delete"
    /\ logs[Len(logs)].details = "id:1"
    /\ \E m \in members : m.id = 2
    /\ \A m \in members : m.id # 1

\* C12: a promote or demote request for a member id that is not in the
\* roster reports not-found, changes no member's rank, creates no member
\* and records no audit entry.
C12_ChangeAbsentIsNotFound ==
    [][ \A id \in ReqIds :
          /\ ( /\ (promote_member(id) \/ demote_member(id)) /\ session.is_admin
               /\ \A m \in members : m.id # id )
             => /\ members' = members
                /\ next_id' = next_id
                /\ logs' = logs
                /\ result' = "False"
                /\ response' = "redirect_index"
          /\ ( /\ (file_change_member_rank(id, 1) \/ file_change_member_rank(id, 0 - 1))
               /\ \A i \in 1..Len(datafile.members) : datafile.members[i].id # id )
             => (datafile' = datafile /\ result' = "False") ]_vars

\* an admin's promote request for an id no member has, with a member present
C12_Witness ==
    /\ impl = "db"
    /\ session.is_admin
    /\ members # {}
    /\ hist.op = "promote"
    /\ hist.before = 0 - 1
    /\ result = "False"
    /\ response = "redirect_index"

\* the request is one of the four mutation routes
mutation_request ==
    \/ \E fu \in FormUsernames, fr \in FormRanks : add_member(fu, fr)
    \/ \E id \in ReqIds : delete_member(id)
    \/ \E id \in ReqIds : promote_member(id)
    \/ \E id \in ReqIds : demote_member(id)

\* the logs say that the last successful login was not followed by a logout
logged_in ==
    \E k \in 1..Len(logs) :
        /\ logs[k].action = "login"
        /\ \A j \in (k + 1)..Len(logs) : logs[j].action # "logout"

\* C13: the session is an admin session exactly after a successful login
\* with no later logout; a mutation request of any other session is
\* answered with the redirect to /login and changes neither roster nor
\* audit log; the roster changes, and an add, delete, promote or demote
\* entry is logged, only in an admin session; the roster page is served to
\* every session.
C13_MutationsNeedAdminSession ==
    /\ [](impl = "db" => (session.is_admin <=> logged_in))
    /\ [][ /\ (mutation_request /\ ~session.is_admin)
              => /\ members' = members
                 /\ next_id' = next_id
                 /\ logs' = logs
                 /\ response' = "redirect_login"
           /\ (impl = "db" /\ members' # members) => session.is_admin
           /\ ( /\ impl = "db" /\ logs' # logs
                /\ logs'[Len(logs')].action \in {"add", "delete", "promote", "demote"} )
              => session.is_admin
           /\ index_route => (response' = "roster" /\ members' = members /\ logs' = logs)
         ]_vars

\* after a logout, with a member in the roster, a mutation request was
\* redirected to /login
C13_Witness ==
    /\ impl = "db"
    /\ ~session.is_admin
    /\ members # {}
    /\ Len(logs) > 0
    /\ logs[Len(logs)].action = "logout"
    /\ response = "redirect_login"

\* the cache holds an entry for key k that is unexpired at time t
fresh(k, t) == cached_key(k) /\ avatar_cache[k].expiry > t

\* thread t, at the locked step of avatar_get_cached, goes on to the
\* external lookup
calls_api(t) == resolve_get(t) /\ thread'[t].pc = "userid"

\* thread t, at the locked step of avatar_get_cached, returns from
\* get_roblox_avatar
returns_cached(t) == resolve_get(t) /\ thread'[t].pc = "idle"

\* C14: after avatar_set_cached stored a value for a username, and until
\* AVATAR_TTL has elapsed, avatar_get_cached gives that value for every
\* case variant of the username; a get that finds an unexpired image URL
\* returns it.
C14_PutThenGet ==
    [][ \A t \in Threads :
          /\ \A o \in ThumbOutcomes :
                resolve_thumb(t, o) =>
                    \A v \in Usernames :
                        lower(v) = lower(thread[t].username) =>
                            \A tm \in now..(now + AVATAR_TTL - 1) :
                                avatar_get_cached(v, tm)' = thumbnail_url(o)
          /\ \A o \in UserIdOutcomes :
                (resolve_userid(t, o) /\ thread'[t].pc = "idle") =>
                    \A v \in Usernames :
                        lower(v) = lower(thread[t].username) =>
                            \A tm \in now..(now + AVATAR_TTL - 1) :
                                avatar_get_cached(v, tm)' = "None"
          /\ ( /\ resolve_get(t)
               /\ fresh(lower(thread[t].username), thread[t].now)
               /\ avatar_cache[lower(thread[t].username)].url # "None" )
             => /\ returns_cached(t)
                /\ result' = avatar_cache[lower(thread[t].username)].url
      ]_vars

\* the lookup of "Alice" was served from the cache entry under "alice"
C14_Witness ==
    /\ impl = "cache"
    /\ served = [username |-> "Alice", from |-> "cache"]
    /\ cached_key("alice")
    /\ ~cached_key("Alice")
    /\ result = avatar_cache["alice"].url
    /\ result \in ImageUrls

\* C15: avatar_get_cached gives different values for a key with an
\* unexpired entry that records "no avatar" and for a key with no unexpired
\* entry.
C15_MissDistinctFromAbsent ==
    \A u1 \in Usernames, u2 \in Usernames :
        ( /\ fresh(lower(u1), now)
          /\ avatar_cache[lower(u1)].url = "None"
          /\ ~fresh(lower(u2), now) )
        => avatar_get_cached(u1, now) # avatar_get_cached(u2, now)

\* C16: the time a get read is never ahead of the clock; a get returns a
\* cached value only from an entry whose expiry is after the time the get
\* read, and an entry whose expiry is at or before that time is a miss
\* although the cleaner has not removed it.
C16_ExpiredNeverServed ==
    [][ \A t \in Threads :
          resolve_get(t) =>
              /\ thread[t].now <= now
              /\ returns_cached(t) =>
                    /\ fresh(lower(thread[t].username), thread[t].now)
                    /\ result' = avatar_cache[lower(thread[t].username)].url
              /\ ( /\ cached_key(lower(thread[t].username))
                   /\ avatar_cache[lower(thread[t].username)].expiry <= thread[t].now )
                 => (calls_api(t) /\ result' = result)
      ]_vars

\* a get missed an image URL that is still in the cache, expired
C16_Witness ==
    /\ impl = "cache"
    /\ \E t \in Threads :
          /\ thread[t].pc = "userid"
          /\ cached_key(lower(thread[t].username))
          /\ avatar_cache[lower(thread[t].username)].url \in ImageUrls
          /\ avatar_cache[lower(thread[t].username)].expiry <= now

\* C17: one pass of the cleaner removes every entry whose expiry is at or
\* before the time the pass read and keeps every other entry as it was; no
\* entry unexpired at the clock is removed; the size drops by the number of
\* expired entries, so an entry inserted and swept after its expiry leaves
\* the count that was there before it.
C17_SweepRemovesExpired ==
    [][ cleaner_sweep =>
          /\ DOMAIN avatar_cache' =
                 {k \in DOMAIN avatar_cache : avatar_cache[k].expiry > cleaner.now}
          /\ \A k \in DOMAIN avatar_cache' : avatar_cache'[k] = avatar_cache[k]
          /\ \A k \in DOMAIN avatar_cache :
                 avatar_cache[k].expiry > now => k \in DOMAIN avatar_cache'
          /\ Cardinality(DOMAIN avatar_cache') =
                 Cardinality(DOMAIN avatar_cache)
                 - Cardinality({k \in DOMAIN avatar_cache :
                                   avatar_cache[k].expiry <= cleaner.now})
      ]_vars

\* a lookup cached its outcome, and the cleaner has emptied the cache again
C17_Witness ==
    /\ impl = "cache"
    /\ served.from = "api"
    /\ DOMAIN avatar_cache = {}
    /\ cleaner = Asleep
    /\ \A t \in Threads : thread[t] = Idle

\* C18: a resolve that finds an unexpired entry recording "no avatar"
\* returns None without going on to the external lookup.
C18_AbsentNotRetried ==
    [][ \A t \in Threads :
          ( /\ resolve_get(t)
            /\ fresh(lower(thread[t].username), thread[t].now)
            /\ avatar_cache[lower(thread[t].username)].url = "None" )
          => (returns_cached(t) /\ result' = "None") ]_vars

\* C19: a resolve that finds an unexpired image URL returns it without
\* the external lookup, and a resolve goes on to the external lookup only
\* when the key has no unexpired entry.
C19_ApiOnlyOnMiss ==
    [][ \A t \in Threads :
          /\ ( /\ resolve_get(t)
               /\ fresh(lower(thread[t].username), thread[t].now)
               /\ avatar_cache[lower(thread[t].username)].url \in ImageUrls )
             => ~calls_api(t)
          /\ calls_api(t) => ~fresh(lower(thread[t].username), thread[t].now)
      ]_vars

\* C20: get_roblox_avatar and get_avatar_url return an image URL or None
\* and never an exception; every outcome of the first call other than an
\* id, and every outcome of the second other than an image URL, gives None.
C20_FailsClosed ==
    /\ [](result \in ImageUrls \cup {"None"})
    /\ [][ /\ \A t \in Threads, o \in UserIdOutcomes :
                 (resolve_userid(t, o) /\ o # "id") =>
                     (returns(t, "None", "api") /\ ~calls_api(t))
           /\ \A t \in Threads, o \in ThumbOutcomes :
                 (resolve_thumb(t, o) /\ o \notin ImageUrls) =>
                     result' = "None"
           /\ \A u \in Usernames, first \in UserIdOutcomes, second \in ThumbOutcomes :
                 ( /\ live_get_avatar_url(u, first, second)
                   /\ (first # "id" \/ second \notin ImageUrls) )
                 => result' = "None"
         ]_vars

\* a failed lookup returned None and left the absent value in the cache
C20_Witness ==
    /\ impl = "cache"
    /\ served.from = "api"
    /\ result = "None"
    /\ cached_key(lower(served.username))
    /\ avatar_cache[lower(served.username)].url = "None"
    /\ \A t \in Threads : thread[t] = Idle

\* the members of the running copy, db rows or entries of the data file
roster ==
    IF impl = "db" THEN members
    ELSE { datafile.members[i] : i \in 1..Len(datafile.members) }

\* C28: no two members of the roster share an id, and the k-th member ever
\* created has the id k: ids are handed out from 1 upwards, so an id that
\* a deleted member had is given to no later member.
C28_IdsUniqueAndStable ==
    (impl \in {"db", "file"}) =>
        /\ \A m1 \in roster, m2 \in roster : m1.id = m2.id => m1 = m2
        /\ impl = "file" => Cardinality(roster) = Len(datafile.members)
        /\ \A m \in roster : m.id = m.created_at

\* C29: a promote or demote of member m changes no member's id, username
\* or creation timestamp, changes no field of any other member and leaves
\* the number of members as it was.
C29_RankChangeFrame ==
    [][ \A id \in ReqIds :
          /\ ( /\ (promote_member(id) \/ demote_member(id))
               /\ session.is_admin )
             => /\ Cardinality(members') = Cardinality(members)
                /\ next_id' = next_id
                /\ \A m \in members :
                      \E m2 \in members' :
                          /\ m2.id = m.id
                          /\ m2.username = m.username
                          /\ m2.created_at = m.created_at
                          /\ (m.id # id => m2 = m)
          /\ \A delta \in {1, 0 - 1} :
                file_change_member_rank(id, delta)
                => /\ Len(datafile'.members) = Len(datafile.members)
                   /\ datafile'.logs = datafile.logs
                   /\ \A i \in 1..Len(datafile.members) :
                         /\ datafile'.members[i].id = datafile.members[i].id
                         /\ datafile'.members[i].username =
                                datafile.members[i].username
                         /\ datafile'.members[i].created_at =
                                datafile.members[i].created_at
                         /\ (datafile.members[i].id # id =>
                                datafile'.members[i] = datafile.members[i])
      ]_vars

\* member 1 of two was promoted from index 7 to 8 and member 2 is at the
\* index it was added with
C29_Witness ==
    /\ impl = "db"
    /\ Cardinality(members) = 2
    /\ hist.op = "promote"
    /\ hist.id = 1
    /\ hist.before = 7
    /\ rank_of(1) = 8
    /\ rank_of(2) = 0

\* the keys the avatar cache can hold
CacheKeys == { lower(u) : u \in Usernames }

\* C30: with the cleaner thread scheduled fairly, an entry that has expired
\* is eventually out of the cache, unless a put has replaced it by an
\* unexpired one.
C30_ExpiredEventuallyRemoved ==
    \A k \in CacheKeys :
        (cached_key(k) /\ avatar_cache[k].expiry <= now)
            ~> (~cached_key(k) \/ avatar_cache[k].expiry > now)

\* at the end of the clock the cleaner has removed every entry, among them
\* one that a lookup of "bob" had left
C30_Witness ==
    /\ impl = "cache"
    /\ now = MaxTime
    /\ served = [username |-> "bob", from |-> "api"]
    /\ ~cached_key("bob")
    /\ ~cached_key("alice")
    /\ cleaner = Asleep

\* thread t is waiting for the answer of the username or thumbnail request
in_fetch(t) == thread[t].pc \in {"userid", "thumb"}

\* thread t is inside a "with _avatar_lock" block
in_block(t) == thread[t].pc \in {"get_in", "set_in"}

\* C21: a thread that is waiting for an external request does not hold the
\* cache lock.
C21_NoLockDuringFetch ==
    impl = "lock" =>
        \A t \in LockThreads : in_fetch(t) => avatar_lock # t

\* the request thread waits for the thumbnail while the prefetch thread is
\* inside avatar_set_cached and the cleaner waits for the lock
C21_Witness ==
    /\ impl = "lock"
    /\ thread["request"].pc = "thumb"
    /\ thread["prefetch"].pc = "set_in"
    /\ avatar_lock = "prefetch"
    /\ cleaner.pc = "wait"

\* C22: a thread is inside a block that reads, writes or deletes in the
\* cache mapping exactly while it holds the lock, so at most one thread is
\* inside such a block; the mapping changes only in a step of the holder,
\* which then releases the lock.
C22_MappingAccessUnderLock ==
    /\ [](impl = "lock" =>
            /\ \A t \in LockThreads : in_block(t) <=> avatar_lock = t
            /\ cleaner.pc = "in" <=> avatar_lock = "cleaner"
            /\ Cardinality({t \in LockThreads : in_block(t)})
                   + (IF cleaner.pc = "in" THEN 1 ELSE 0) <= 1)
    /\ [][ /\ avatar_cache' # avatar_cache =>
                 (avatar_lock # "free" /\ avatar_lock' = "free")
           /\ \A t \in LockThreads :
                 (lock_get_read(t) \/ lock_set_write(t)) => avatar_lock = t
           /\ lock_cleaner_sweep => avatar_lock = "cleaner"
         ]_vars

\* the request thread is inside avatar_get_cached while the prefetch thread
\* and the cleaner wait for the lock
C22_Witness ==
    /\ impl = "lock"
    /\ thread["request"].pc = "get_in"
    /\ avatar_lock = "request"
    /\ thread["prefetch"].pc = "set_wait"
    /\ cleaner.pc = "wait"
    /\ cached_key("alice")

\* C25: the file copy's audit log holds at most LOG_KEEP entries, newest
\* first, and they are exactly the newest entries recorded; log_action puts
\* its entry in front of the kept ones and changes none of them, and
\* get_logs(limit) returns the first limit entries and changes nothing.
C25_FileLogBounded ==
    /\ [](impl = "filelog" =>
            /\ Len(datafile.logs) = min(clock, LOG_KEEP)
            /\ \A i \in 1..Len(datafile.logs) :
                   datafile.logs[i].at = clock - i + 1)
    /\ [][ /\ file_log_action("admin", "promote", "id:1") =>
                 /\ datafile'.logs[1] =
                        [at |-> clock + 1, admin |-> "admin",
                         action |-> "promote", details |-> "id:1"]
                 /\ \A i \in 2..Len(datafile'.logs) :
                        datafile'.logs[i] = datafile.logs[i - 1]
                 /\ Len(datafile'.logs) >= Len(datafile.logs)
           /\ \A limit \in LogLimits :
                 file_get_logs(limit) =>
                     /\ Len(result') = min(limit, Len(datafile.logs))
                     /\ \A i \in 1..Len(result') : result'[i] = datafile.logs[i]
                     /\ datafile' = datafile
         ]_vars

\* after 502 entries the log holds the newest 500, and get_logs(200)
\* returned entries 502 down to 303
C25_Witness ==
    /\ impl = "filelog"
    /\ clock = LOG_KEEP + 2
    /\ Len(datafile.logs) = LOG_KEEP
    /\ datafile.logs[LOG_KEEP].at = 3
    /\ hist.op = "get_logs"
    /\ hist.id = 200
    /\ Len(result) = 200
    /\ result[200].at = LOG_KEEP - 197

\* C26: after the same calls the database store and the file store of the
\* second copy hold the same set of (username, rank index) members, and the
\* last call returned the same value from both.
C26_StoresAgree ==
    impl = "stores" =>
        /\ { <<m.username, m.rank_index>> : m \in members }
             = { <<datafile.members[i].username, datafile.members[i].rank_index>> :
                    i \in 1..Len(datafile.members) }
        /\ result[1] = result[2]

\* both requests have returned
both_done == \A t \in RaceThreads : thread[t].pc = "done"

\* C23: when two store calls of the file copy have run at once, players.json
\* holds what the two calls leave when one runs after the other, in one of
\* the two orders.
C23_MutationsSerialized ==
    (impl = "race" /\ both_done) =>
        \/ datafile = apply_doc(thread["r2"].op, apply_doc(thread["r1"].op, RaceStart))
        \/ datafile = apply_doc(thread["r1"].op, apply_doc(thread["r2"].op, RaceStart))

\* C24: no call of read_datafile finds players.json partly written.
C24_ReaderSeesWholeFile ==
    (impl \in {"race", "first_start"}) =>
        \A t \in RaceThreads : thread[t].pc # "failed"

\* C27: no two members of the roster have usernames that are equal when
\* lower-cased, in the members table of the first copy and in players.json.
C27_NoDuplicateUsernames ==
    /\ \A m1 \in members, m2 \in members :
          lower(m1.username) = lower(m2.username) => m1 = m2
    /\ \A i \in 1..Len(datafile.members), j \in 1..Len(datafile.members) :
          lower(datafile.members[i].username) = lower(datafile.members[j].username)
              => i = j

\* the names of the two ladders of admin_tools
ValidRanks == { PNCO_RANKS[i] : i \in 1..Len(PNCO_RANKS) }
              \cup { PCO_RANKS[i] : i \in 1..Len(PCO_RANKS) }

\* the two ranks are on the same ladder of admin_tools
same_ladder(r1, r2) == contains(PNCO_RANKS, r1) <=> contains(PNCO_RANKS, r2)

\* C31: in admin_tools every stored rank is a rank of PNCO_RANKS or of
\* PCO_RANKS, and a promote_user or demote_user call leaves the user on the
\* ladder it was on: at the top of PNCO_RANKS a promote changes nothing and
\* reports "Already at highest rank.", at the bottom of PCO_RANKS a demote
\* changes nothing and reports "Already at lowest rank."; in the first copy
\* of app.py a promote of a member at index 6 moves it to index 7.
C31_TwoLadders ==
    /\ [](impl = "tools" =>
            \A u \in DOMAIN player_ranks : player_ranks[u] \in ValidRanks)
    /\ [][ /\ \A u \in ToolUsers :
                 ( /\ impl = "tools" /\ has_rank(u)
                   /\ hist'.op \in {"promote", "demote"} /\ hist'.user = u )
                 => /\ has_rank(u)'
                    /\ same_ladder(player_ranks[u], player_ranks'[u])
                    /\ ( hist'.op = "promote"
                         /\ player_ranks[u] = PNCO_RANKS[Len(PNCO_RANKS)] )
                       => ( player_ranks' = player_ranks
                            /\ result' = "Already at highest rank." )
                    /\ ( hist'.op = "demote" /\ player_ranks[u] = PCO_RANKS[1] )
                       => ( player_ranks' = player_ranks
                            /\ result' = "Already at lowest rank." )
           /\ \A id \in ReqIds :
                 ( /\ impl = "db" /\ hist'.op = "promote" /\ hist'.id = id
                   /\ rank_of(id) = Len(PNCO_RANKS) - 1 )
                 => rank_of(id)' = Len(PNCO_RANKS)
         ]_vars

\* promote_user was called for a user at the top of PNCO_RANKS
C31_Witness ==
    /\ impl = "tools"
    /\ hist.op = "promote"
    /\ hist.before = Len(PNCO_RANKS) - 1
    /\ has_rank(hist.user)
    /\ player_ranks[hist.user] = PNCO_RANKS[Len(PNCO_RANKS)]
    /\ result = "Already at highest rank."

\* C32: in admin_tools, set_rank_for_user and add_user called with a rank
\* that is in neither PNCO_RANKS nor PCO_RANKS raise ValueError and leave
\* player_ranks as it was; promote_user and demote_user for a user without
\* a rank return the "no rank assigned" message and leave player_ranks as
\* it was.
C32_RejectedCallsChangeNothing ==
    [][ /\ \A u \in ToolUsers, r \in ToolRanks \ ValidRanks :
              (tools_set_rank(u, r) \/ add_user(u, r))
                  => (result' = "ValueError" /\ player_ranks' = player_ranks)
        /\ \A u \in ToolUsers :
              ((promote_user(u) \/ demote_user(u)) /\ ~has_rank(u))
                  => ( /\ result' = "User has no rank assigned."
                       /\ player_ranks' = player_ranks )
      ]_vars

\* a call with the rank "Cadet" was rejected while a user had a rank
C32_Witness ==
    /\ impl = "tools"
    /\ result = "ValueError"
    /\ player_ranks # <<>>

\* C33: once main() of db_sync.py has run on a players.json, running it
\* again on the same file leaves the members table and the logs table as
\* the first run left them.
C33_SyncIdempotent ==
    [][ (impl = "sync" /\ hist.id >= 1)
            => (members' = members /\ logs' = logs) ]_vars

====
